---- MODULE Spec2Model ----
(***************************************************************************)
(* Verification model of the agents repository.                           *)
(*                                                                         *)
(* Part 1: the message reducer (src/src/messages/reducer.ts).              *)
(*   Messages are JavaScript objects, so they live in a heap: a function   *)
(*   from references to objects.  A message list is a sequence of          *)
(*   references; two entries holding the same reference are the same       *)
(*   object.  The reducer assigns ids to its argument objects in place,    *)
(*   which only a heap can show.                                           *)
(***************************************************************************)
EXTENDS Integers, Sequences, FiniteSets, TLC

VARIABLES
  heap,      \* reference -> message object
  left,      \* reducer call: the `left` argument (sequence of references)
  right,     \* reducer call: the `right` argument (sequence of references)
  pc,        \* reducer call: "ready" | "returned" | "threw"
  heap0,     \* reducer call: the heap as it was when the call started
  result,    \* reducer call: the returned array (sequence of references)
  messages,  \* state store: the canonical message list
  snapshot,  \* fan-out: the canonical list as it was at the fan-out point
  delta,     \* fan-out: branch -> the update the branch produced
  done,      \* fan-out: the branches that completed, in completion order
  fpc,       \* fan-out: "none" | "running" | "merged"
  observed,  \* fan-out: branch -> the message list its node was given
  blocks,    \* cache pass: the content-block objects (reference -> block)
  blocks0,   \* cache pass: the content-block objects when the pass started
  payload,   \* cache pass: the message list handed to the pass
  marked,    \* cache pass: the message list the pass returned
  cpc,       \* cache pass: "none" | "ready" | "done" | "again"
  passes,    \* cache pass: the passes that ran, in order, each with whether it
             \* returned the array it was given
  edges,      \* router: the edge declarations the graph was given
  graphState, \* router: "none" | "declared" | "built" | "rejected" | "running"
  buildError, \* router: the error graph construction raised, or "none"
  kinds,      \* router: edge declaration -> "HANDOFF" | "DIRECT"
  active,     \* router: node -> number of its executions under way
  routed,     \* router: node -> how its last execution left ("none" | "handoff" | "direct")
  runState,   \* router: the outputs merged into the state, in completion order
  seen,       \* router: node -> the state its last execution started from
  path,       \* router: the nodes that started executing, in order
  events,     \* router: number of events emitted
  stepMap,      \* aggregator: run-step id -> "none" | its type | "done"
  accumulators, \* aggregator: (run-step id, content index) -> accumulator or NoAcc
  contentParts, \* aggregator: the visible list of finalized content parts
  delivered,    \* aggregator: the deltas handed to the aggregator for a known
                \* run-step, in arrival order
  aggStatus,    \* aggregator: "none" | "running" | "failed"
  lastEvent,    \* aggregator: the event dispatched last and how the dispatch ended
  nEvents,      \* aggregator: number of events dispatched
  encoderPromise,      \* tokens: 0 (undefined) or the encoder load it holds
  tokenCounterPromise, \* tokens: 0 (undefined) or the counter promise it holds
  loads,               \* tokens: encoder load -> when it started and how it stands
  counterPromises,     \* tokens: counter promise -> the encoder load it awaits
  tokenCalls,          \* tokens: the calls made, in order, with what they returned
  epoch,               \* tokens: number of reset() calls so far
  command,             \* store: the routing directive of the update in flight
  model,                       \* chat model: this.model
  applicationInferenceProfile, \* chat model: the profile ARN it was built with
  invocations,                 \* chat model: the invocations made, in order
  generationChunk,             \* chat model: the chunk handed to cleanChunk
  cleanedChunk                 \* chat model: what cleanChunk returned for it

vars == <<heap, left, right, pc, heap0, result, messages, snapshot, delta, done, fpc,
          observed,
          blocks, blocks0, payload, marked, cpc, passes,
          edges, graphState, buildError, kinds, active, routed, runState, seen, path,
          events,
          stepMap, accumulators, contentParts, delivered, aggStatus, lastEvent, nEvents,
          encoderPromise, tokenCounterPromise, loads, counterPromises, tokenCalls, epoch,
          command, model, applicationInferenceProfile, invocations,
          generationChunk, cleanedChunk>>

fanVars == <<snapshot, delta, done, fpc, observed>>

cacheVars == <<blocks, blocks0, payload, marked, cpc, passes>>

reducerVars == <<heap, left, right, pc, heap0, result, messages>>

routerVars == <<edges, graphState, buildError, kinds, active, routed, runState, seen,
                path, events>>

aggVars == <<stepMap, accumulators, contentParts, delivered, aggStatus, lastEvent,
             nEvents>>

----------------------------------------------------------------------------
(* Bounds *)

MaxArgs == 3     \* most entries `left` and `right` of one reducer call hold together
MaxLen == 2      \* longest canonical list the state store is driven to
MaxIncoming == 3 \* longest update a node hands to the state store
MaxSnapshot == 2 \* longest canonical list at a fan-out point
MaxDelta == 2    \* longest update of one parallel branch
MaxMsgs == 3     \* longest message list handed to a cache pass
MaxPayload == 3  \* longest message list handed to the first pass of two
MaxConv == 3     \* longest conversation the turns build up
MaxEdges == 2    \* most edge declarations of one graph
MaxEvents == 5   \* most events dispatched to one aggregator
MaxCalls == 5    \* most calls made to the token module

----------------------------------------------------------------------------
(* Values *)

REMOVE_ALL_MESSAGES == "__remove_all__"

\* the value of m.id when the message was built without an id
NoId == "undefined"

\* ids a caller writes on a message
ExplicitIds == {"a", "b"}

\* BaseMessage.getType(); the reducer only tells 'remove' from the rest
MsgTypes == {"human", "remove"}

\* v4(): the n-th id handed out by the uuid generator
UuidOf(n) == "uuid-" \o ToString(n)

RECURSIVE SeqsUpTo(_, _)
SeqsUpTo(S, n) ==
  IF n = 0 THEN {<<>>}
  ELSE LET shorter == SeqsUpTo(S, n - 1)
       IN shorter \cup {Append(s, x) : s \in {t \in shorter : Len(t) = n - 1}, x \in S}

Range(s) == {s[i] : i \in 1..Len(s)}

\* A message object.  lc is TRUE for a BaseMessage instance and FALSE for a
\* plain message-like object that coerceMessageLikeToMessage turns into one.
\* kwargs_id is lc_kwargs.id, which the constructor sets to the id.
MsgObj(id, type, lc) == [id |-> id, kwargs_id |-> id, type |-> type, lc |-> lc]

\* the objects a caller can build
InputObjects ==
  {MsgObj(id, "human", lc) : id \in ExplicitIds \cup {NoId}, lc \in BOOLEAN}
  \cup {MsgObj(id, "remove", TRUE) : id \in ExplicitIds \cup {REMOVE_ALL_MESSAGES}}

----------------------------------------------------------------------------
(* messagesStateReducer *)

\* the reference a newly constructed object gets
NewRef(h) ==
  CHOOSE n \in 1..(Cardinality(DOMAIN h) + 1) :
    n \notin DOMAIN h /\ \A m \in 1..(n - 1) : m \in DOMAIN h

\* v4(): an id no live message carries
v4(h) ==
  LET used == {h[r].id : r \in DOMAIN h}
      n == CHOOSE k \in 1..(Cardinality(used) + 1) :
             UuidOf(k) \notin used /\ \A j \in 1..(k - 1) : UuidOf(j) \in used
  IN UuidOf(n)

\* array.map(coerceMessageLikeToMessage): a BaseMessage instance is returned as
\* it is, anything else is turned into a newly constructed message
RECURSIVE coerceAll(_, _, _)
coerceAll(h, array, acc) ==
  IF array = <<>> THEN [heap |-> h, msgs |-> acc]
  ELSE LET r == Head(array) IN
       IF h[r].lc
       THEN coerceAll(h, Tail(array), Append(acc, r))
       ELSE LET n == NewRef(h)
                hn == [x \in DOMAIN h \cup {n} |->
                         IF x = n THEN [h[r] EXCEPT !.lc = TRUE] ELSE h[x]]
            IN coerceAll(hn, Tail(array), Append(acc, n))

\* m.id = v4(); m.lc_kwargs.id = m.id
SetId(h, r, id) ==
  [x \in DOMAIN h |-> IF x = r THEN [h[x] EXCEPT !.id = id, !.kwargs_id = id] ELSE h[x]]

\* the two loops that give an id to every message that has none
RECURSIVE assignMissingIds(_, _)
assignMissingIds(h, msgs) ==
  IF msgs = <<>> THEN h
  ELSE LET r == Head(msgs) IN
       IF h[r].id = NoId
       THEN assignMissingIds(SetId(h, r, v4(h)), Tail(msgs))
       ELSE assignMissingIds(h, Tail(msgs))

IsRemoveAll(m) == m.type = "remove" /\ m.id = REMOVE_ALL_MESSAGES

\* mutant: the scan stops at the first sentinel
removeAllPos_first(h, rightMessages) ==
  LET hits == {i \in 1..Len(rightMessages) : IsRemoveAll(h[rightMessages[i]])}
  IN IF hits = {} THEN 0 ELSE CHOOSE i \in hits : \A j \in hits : i <= j

\* removeAllIdx + 1 (0 when the loop never sets removeAllIdx): the loop
\* overwrites removeAllIdx on every match, so the last match stays
removeAllPos(h, rightMessages) ==
  LET hits == {i \in 1..Len(rightMessages) : IsRemoveAll(h[rightMessages[i]])}
  IN IF hits = {} THEN 0 ELSE CHOOSE i \in hits : \A j \in hits : j <= i

\* new Map(merged.map((m, i) => [m.id, i])): a later entry overwrites an
\* earlier one that has the same key
mapById(h, merged) ==
  [id \in {h[merged[i]].id : i \in 1..Len(merged)} |->
     CHOOSE i \in 1..Len(merged) :
       /\ h[merged[i]].id = id
       /\ \A j \in 1..Len(merged) : h[merged[j]].id = id => j <= i]

\* the state of the merge loop before its first iteration
mergeStart(h, leftMessages) ==
  [merged |-> leftMessages, mergedById |-> mapById(h, leftMessages),
   idsToRemove |-> {}, threw |-> FALSE]

\* idsToRemove.add(m.id)
removeExisting(st, m) == [st EXCEPT !.idsToRemove = @ \cup {m.id}]

\* mutant: the message is pushed instead of written over the existing entry
replaceExisting_push(st, m, r) ==
  [st EXCEPT !.idsToRemove = @ \ {m.id}, !.merged = Append(@, r)]

\* idsToRemove.delete(m.id); merged[existingIdx] = m
replaceExisting(st, m, r) ==
  [st EXCEPT !.idsToRemove = @ \ {m.id},
             !.merged = [k \in 1..Len(st.merged) |->
                          IF k = st.mergedById[m.id] THEN r ELSE st.merged[k]]]

\* mutant: a tombstone for an unknown id is skipped
unknownRemoval_skip(st) == st

\* throw new Error("Attempting to delete a message with an ID that doesn't exist")
unknownRemoval(st) == [st EXCEPT !.threw = TRUE]

\* mutant: the new message is put at the front
appendNew_unshift(st, m, r) ==
  [st EXCEPT
     !.mergedById = [id \in DOMAIN st.mergedById \cup {m.id} |->
                       IF id = m.id THEN Len(st.merged) + 1 ELSE st.mergedById[id]],
     !.merged = <<r>> \o @]

\* mergedById.set(m.id, merged.length); merged.push(m)
appendNew(st, m, r) ==
  [st EXCEPT
     !.mergedById = [id \in DOMAIN st.mergedById \cup {m.id} |->
                       IF id = m.id THEN Len(st.merged) + 1 ELSE st.mergedById[id]],
     !.merged = Append(@, r)]

\* one iteration of the merge loop, for the message r; nothing runs after a throw
mergeStep(h, st, r) ==
  LET m == h[r] IN
  IF st.threw THEN st
  ELSE IF m.id \in DOMAIN st.mergedById
  THEN IF m.type = "remove" THEN removeExisting(st, m) ELSE replaceExisting(st, m, r)
  ELSE IF m.type = "remove" THEN unknownRemoval(st) ELSE appendNew(st, m, r)

\* the state of the merge loop after its first k iterations
RECURSIVE mergeLoop(_, _, _, _)
mergeLoop(h, leftMessages, rightMessages, k) ==
  IF k = 0 THEN mergeStart(h, leftMessages)
  ELSE mergeStep(h, mergeLoop(h, leftMessages, rightMessages, k - 1), rightMessages[k])

\* mutant: the filter keeps what it should drop
filterRemoved_inverted(h, st) ==
  SelectSeq(st.merged, LAMBDA r : h[r].id \in st.idsToRemove)

\* merged.filter((m) => !idsToRemove.has(m.id))
filterRemoved(h, st) ==
  SelectSeq(st.merged, LAMBDA r : h[r].id \notin st.idsToRemove)

\* the whole call: the heap it leaves, whether it threw, the array it returns
messagesStateReducer(h, leftArray, rightArray) ==
  LET cl == coerceAll(h, leftArray, <<>>)
      cr == coerceAll(cl.heap, rightArray, <<>>)
      leftMessages == cl.msgs
      rightMessages == cr.msgs
      h1 == assignMissingIds(cr.heap, leftMessages)
      h2 == assignMissingIds(h1, rightMessages)
      removeAll == removeAllPos(h2, rightMessages)
      st == mergeLoop(h2, leftMessages, rightMessages, Len(rightMessages))
  IN IF removeAll # 0
     THEN [heap |-> h2, threw |-> FALSE,
           value |-> SubSeq(rightMessages, removeAll + 1, Len(rightMessages))]
     ELSE IF st.threw
     THEN [heap |-> h2, threw |-> TRUE, value |-> <<>>]
     ELSE [heap |-> h2, threw |-> FALSE, value |-> filterRemoved(h2, st)]

----------------------------------------------------------------------------
(* A single call of the reducer on arbitrary arguments *)

\* no cache pass is under way
CacheIdle ==
  /\ blocks = <<>>
  /\ blocks0 = <<>>
  /\ payload = <<>>
  /\ marked = <<>>
  /\ cpc = "none"
  /\ passes = <<>>

tokenVars == <<encoderPromise, tokenCounterPromise, loads, counterPromises,
               tokenCalls, epoch>>

handoffVars == <<command>>

converseVars == <<model, applicationInferenceProfile, invocations,
                  generationChunk, cleanedChunk>>

\* no chat model was constructed
ConverseIdle ==
  /\ model = "none"
  /\ applicationInferenceProfile = "none"
  /\ invocations = <<>>
  /\ generationChunk = <<>>
  /\ cleanedChunk = <<>>

\* an update that carries no routing directive
NoCommand == [goto |-> "none", graph |-> "none"]

\* no transfer capability was invoked
HandoffIdle == command = NoCommand

\* the token module was not loaded
TokenIdle ==
  /\ encoderPromise = 0
  /\ tokenCounterPromise = 0
  /\ loads = <<>>
  /\ counterPromises = <<>>
  /\ tokenCalls = <<>>
  /\ epoch = 0

\* no aggregator was created
AggIdle ==
  /\ stepMap = <<>>
  /\ accumulators = <<>>
  /\ contentParts = <<>>
  /\ delivered = <<>>
  /\ aggStatus = "none"
  /\ lastEvent = <<>>
  /\ nEvents = 0

\* no graph was declared
RouterIdle ==
  /\ edges = {}
  /\ graphState = "none"
  /\ buildError = "none"
  /\ kinds = <<>>
  /\ active = <<>>
  /\ routed = <<>>
  /\ runState = <<>>
  /\ seen = <<>>
  /\ path = <<>>
  /\ events = 0

\* no fan-out is under way
FanIdle ==
  /\ snapshot = <<>>
  /\ delta = <<>>
  /\ done = <<>>
  /\ fpc = "none"
  /\ observed = <<>>

\* references are numbered in the order of their first occurrence
FirstAt(s, r) == CHOOSE i \in 1..Len(s) : s[i] = r /\ \A j \in 1..(i - 1) : s[j] # r

InOrder(s) ==
  /\ Range(s) = 1..Cardinality(Range(s))
  /\ \A r1, r2 \in Range(s) : r1 < r2 => FirstAt(s, r1) < FirstAt(s, r2)

CallInit ==
  /\ left \in SeqsUpTo(1..MaxArgs, MaxArgs)
  /\ right \in SeqsUpTo(1..MaxArgs, MaxArgs - Len(left))
  /\ InOrder(left \o right)
  /\ heap \in [Range(left \o right) -> InputObjects]
  /\ heap0 = heap
  /\ pc = "ready"
  /\ result = <<>>
  /\ messages = <<>>
  /\ FanIdle
  /\ CacheIdle
  /\ RouterIdle
  /\ AggIdle
  /\ TokenIdle
  /\ HandoffIdle
  /\ ConverseIdle

\* messagesStateReducer(left, right) runs to its end
Call ==
  /\ pc = "ready"
  /\ LET out == messagesStateReducer(heap, left, right) IN
       /\ heap' = out.heap
       /\ pc' = IF out.threw THEN "threw" ELSE "returned"
       /\ result' = out.value
  /\ UNCHANGED <<left, right, heap0, messages, fanVars, cacheVars, routerVars, aggVars, tokenVars, handoffVars, converseVars>>

CallNext == Call

SpecCall == CallInit /\ [][CallNext]_vars

----------------------------------------------------------------------------
(* Properties of a single call *)

Args == left \o right

\* leftMessages and rightMessages of the call
CallLeftMessages == coerceAll(heap0, left, <<>>).msgs

CallRightMessages ==
  coerceAll(coerceAll(heap0, left, <<>>).heap, right, <<>>).msgs

\* The message rout the call returned is the message rin it was given: the
\* same object when rin is a BaseMessage, a new object otherwise; same type;
\* same id, or a generated id when rin had none.
IsInput(rin, rout) ==
  /\ IF heap0[rin].lc THEN rout = rin ELSE rout \notin DOMAIN heap0
  /\ heap[rout].type = heap0[rin].type
  /\ heap[rout].kwargs_id = heap[rout].id
  /\ IF heap0[rin].id = NoId
     THEN heap[rout].id \notin ExplicitIds \cup {NoId, REMOVE_ALL_MESSAGES}
     ELSE heap[rout].id = heap0[rin].id

IsSeqOf(ins, outs) ==
  /\ Len(outs) = Len(ins)
  /\ \A i \in 1..Len(ins) : IsInput(ins[i], outs[i])

\* no two entries of s end up with the same id: no object with an id occurs
\* twice, and two objects never carry the same id
DistinctIds(s) ==
  \A i, j \in 1..Len(s) : i < j =>
    IF s[i] = s[j]
    THEN heap0[s[i]].id = NoId /\ ~heap0[s[i]].lc
    ELSE heap0[s[i]].id = NoId \/ heap0[s[i]].id # heap0[s[j]].id

C1_Pre ==
  /\ pc # "ready"
  /\ \A i \in 1..Len(Args) : heap0[Args[i]].type # "remove"
  /\ DistinctIds(Args)

\* C1: for lists L1 and L2 of normal messages whose ids are all distinct,
\* messagesStateReducer(L1, L2) returns L1 followed by L2, in order, and so has
\* length len(L1) + len(L2); the ids of the returned messages are distinct.
C1_DisjointMergeIsConcat ==
  C1_Pre =>
    /\ pc = "returned"
    /\ IsSeqOf(Args, result)
    /\ \A i, j \in 1..Len(result) : i < j => heap[result[i]].id # heap[result[j]].id

C1_Witness ==
  /\ C1_Pre
  /\ pc = "returned"
  /\ left # <<>>
  /\ Len(right) >= 2
  /\ \E i \in 1..Len(right) : heap0[right[i]].id = NoId

IsSentinelArg(r) == heap0[r].type = "remove" /\ heap0[r].id = REMOVE_ALL_MESSAGES

SentinelAt == {i \in 1..Len(right) : IsSentinelArg(right[i])}

LastSentinel == CHOOSE i \in SentinelAt : \A j \in SentinelAt : j <= i

ResultIsRightAfter(i) ==
  /\ pc = "returned"
  /\ IsSeqOf(SubSeq(right, i + 1, Len(right)), result)

\* C2 as stated: for every position i of incoming that holds a remove-all
\* sentinel, the call discards current and returns exactly incoming[i+1:].
C2_AnySentinelPosition ==
  pc # "ready" => \A i \in SentinelAt : ResultIsRightAfter(i)

\* C2 amended: when incoming holds a remove-all sentinel, the call discards
\* current and returns exactly incoming[i+1:] for i the position of the LAST
\* sentinel of incoming; so merge(L, [sentinel, m]) is [m] for any L.
C2_LastSentinelPosition ==
  (pc # "ready" /\ SentinelAt # {}) => ResultIsRightAfter(LastSentinel)

C2_Witness ==
  /\ pc = "returned"
  /\ left # <<>>
  /\ Len(right) = 2
  /\ SentinelAt = {1}
  /\ Len(result) = 1

\* C7 as stated: the call modifies no message object it was given.
C7_NoObjectModified ==
  pc # "ready" => \A r \in DOMAIN heap0 : heap[r] = heap0[r]

\* C8: messagesStateReducer(L, []) returns the messages of L in the same order
\* (a message that had no id has one afterwards), and merging an empty list
\* into that result again returns it unchanged and changes no message.
C8_EmptyIncomingIsIdentity ==
  (pc # "ready" /\ right = <<>>) =>
    /\ pc = "returned"
    /\ IsSeqOf(left, result)
    /\ LET again == messagesStateReducer(heap, result, <<>>) IN
         /\ ~again.threw
         /\ again.value = result
         /\ again.heap = heap

C8_Witness ==
  /\ pc = "returned"
  /\ right = <<>>
  /\ Len(left) >= 2
  /\ \E i \in 1..Len(left) : heap0[left[i]].id = NoId
  /\ \E i \in 1..Len(left) : heap0[left[i]].type = "remove"

\* the places of the running result that hold a message with the id of m
PlacesOf(merged, id) == {i \in 1..Len(merged) : heap[merged[i]].id = id}

\* C9: when the merge loop meets a normal message whose id is in the running
\* result, it puts that message at the place of an entry with that id: the
\* running result keeps its length, every other place keeps its entry, and no
\* message object is changed by the step.  For an incoming list of one such
\* message the returned list is current with that one place replaced.
C9_ReplaceInPlace ==
  (pc # "ready" /\ SentinelAt = {}) =>
    /\ \A k \in 1..Len(right) :
         LET before == mergeLoop(heap, CallLeftMessages, CallRightMessages, k - 1)
             after == mergeLoop(heap, CallLeftMessages, CallRightMessages, k)
             r == CallRightMessages[k]
         IN (/\ ~before.threw
             /\ heap[r].type # "remove"
             /\ PlacesOf(before.merged, heap[r].id) # {}) =>
              /\ ~after.threw
              /\ Len(after.merged) = Len(before.merged)
              /\ \E i \in PlacesOf(before.merged, heap[r].id) :
                   /\ after.merged[i] = r
                   /\ \A j \in 1..Len(before.merged) :
                        j # i => after.merged[j] = before.merged[j]
    /\ (/\ Len(right) = 1
        /\ heap0[right[1]].type # "remove"
        /\ heap0[right[1]].id # NoId
        /\ \E i \in 1..Len(left) : heap0[left[i]].id = heap0[right[1]].id) =>
         /\ pc = "returned"
         /\ Len(result) = Len(left)
         /\ \E i \in 1..Len(left) :
              /\ heap0[left[i]].id = heap0[right[1]].id
              /\ IsInput(right[1], result[i])
              /\ \A j \in 1..Len(left) : j # i => IsInput(left[j], result[j])

C9_Witness ==
  /\ pc = "returned"
  /\ Len(left) = 2
  /\ Len(right) = 1
  /\ heap0[right[1]].type = "human"
  /\ heap0[right[1]].id \in ExplicitIds
  /\ heap0[left[1]].id = heap0[right[1]].id
  /\ heap0[left[2]].id # heap0[right[1]].id
  /\ right[1] # left[1]
  /\ result[1] = right[1]
  /\ result[2] = left[2]

----------------------------------------------------------------------------
(* The state store: the canonical list changes only through the reducer *)

EmptyHeap == [r \in {} |-> MsgObj(NoId, "human", TRUE)]

\* the messages behind a list of references
Deref(h, msgs) == [i \in 1..Len(msgs) |-> h[msgs[i]]]

\* the messages a node puts in an update: messages and tombstones with an id
\* of its choice, and the remove-all sentinel
NodeObjects ==
  {MsgObj(id, "human", TRUE) : id \in ExplicitIds}
  \cup {MsgObj(id, "remove", TRUE) : id \in ExplicitIds \cup {REMOVE_ALL_MESSAGES}}

\* the objects of an update are constructed one after the other
RECURSIVE allocate(_, _, _)
allocate(h, objs, acc) ==
  IF objs = <<>> THEN [heap |-> h, msgs |-> acc]
  ELSE LET n == NewRef(h)
           hn == [x \in DOMAIN h \cup {n} |-> IF x = n THEN Head(objs) ELSE h[x]]
       IN allocate(hn, Tail(objs), Append(acc, n))

\* Addresses carry no meaning: after a merge the live objects are numbered in
\* the order of their first occurrence in the canonical list, the rest is
\* garbage.
Rank(msgs, r) == Cardinality({msgs[j] : j \in 1..FirstAt(msgs, r)})

Renumbered(msgs) == [i \in 1..Len(msgs) |-> Rank(msgs, msgs[i])]

Compacted(h, msgs) ==
  [k \in 1..Cardinality(Range(msgs)) |->
     h[CHOOSE r \in Range(msgs) : Rank(msgs, r) = k]]

StoreInit ==
  /\ heap = EmptyHeap
  /\ messages = <<>>
  /\ right = <<>>
  /\ pc = "idle"
  /\ left = <<>>
  /\ heap0 = EmptyHeap
  /\ result = <<>>
  /\ FanIdle
  /\ CacheIdle
  /\ RouterIdle
  /\ AggIdle
  /\ TokenIdle
  /\ HandoffIdle
  /\ ConverseIdle

\* a node finishes and hands its update to the store
NodeReturn(objs) ==
  /\ pc \in {"idle", "returned", "threw"}
  /\ LET al == allocate(heap, objs, <<>>)
         out == messagesStateReducer(al.heap, messages, al.msgs)
     IN /\ Len(out.value) <= MaxLen
        /\ heap' = al.heap
        /\ right' = al.msgs
  /\ pc' = "pending"
  /\ command' = NoCommand
  /\ UNCHANGED <<messages, left, heap0, result, fanVars, cacheVars, routerVars, aggVars, tokenVars, converseVars>>

\* the agents of the handoff graph
HandoffAgents == {"flight_assistant", "hotel_assistant"}

\* new ToolMessage({ content, name, tool_call_id }): built without id
toolMessage == MsgObj(NoId, "tool", TRUE)

\* the same with an update of the acknowledgment alone
createHandoffTool_ackOnly(agentName, h, stateMessages) ==
  LET al == allocate(h, <<toolMessage>>, <<>>)
  IN [heap |-> al.heap,
      goto |-> agentName,
      update |-> al.msgs,
      graph |-> "PARENT"]

\* createHandoffTool({ agentName }): what invoking the tool returns on a state
\* whose message list is stateMessages
createHandoffTool(agentName, h, stateMessages) ==
  LET al == allocate(h, <<toolMessage>>, <<>>)
  IN [heap |-> al.heap,
      goto |-> agentName,
      update |-> stateMessages \o al.msgs,
      graph |-> "PARENT"]

\* a node invokes its transfer capability and hands the Command to the store
Transfer(agentName) ==
  /\ pc \in {"idle", "returned", "threw"}
  /\ Len(messages) <= MaxLen
  /\ LET cmd == createHandoffTool(agentName, heap, messages)
     IN /\ heap' = cmd.heap
        /\ right' = cmd.update
        /\ command' = [goto |-> cmd.goto, graph |-> cmd.graph]
  /\ pc' = "pending"
  /\ UNCHANGED <<messages, left, heap0, result, fanVars, cacheVars, routerVars, aggVars, tokenVars, converseVars>>

\* the store merges the update: messages = messagesStateReducer(messages,
\* update); when the reducer throws, the assignment does not happen
Apply ==
  /\ pc = "pending"
  /\ LET out == messagesStateReducer(heap, messages, right)
         after == IF out.threw THEN messages ELSE out.value
     IN /\ messages' = Renumbered(after)
        /\ heap' = Compacted(out.heap, after)
        /\ pc' = IF out.threw THEN "threw" ELSE "returned"
  /\ right' = <<>>
  /\ UNCHANGED <<left, heap0, result, fanVars, cacheVars, routerVars, aggVars, tokenVars, handoffVars, converseVars>>

StoreNext ==
  \/ \E objs \in SeqsUpTo(NodeObjects, MaxIncoming) : NodeReturn(objs)
  \/ \E agentName \in HandoffAgents : Transfer(agentName)
  \/ Apply

SpecStore == StoreInit /\ [][StoreNext]_vars

----------------------------------------------------------------------------
(* Fan-out and fan-in over DIRECT edges: parallel branches run against one  *)
(* snapshot and their updates are merged through the reducer in the order   *)
(* in which the branches completed                                          *)

Branches == {1, 2}

\* what the canonical list can hold at a fan-out point
SnapshotObjects ==
  {MsgObj(id, type, TRUE) : id \in ExplicitIds, type \in MsgTypes}

\* the new normal messages a branch puts in its update
BranchObjects == {MsgObj(id, "human", TRUE) : id \in ExplicitIds \cup {NoId}}

FanInit ==
  /\ \E objs \in SeqsUpTo(SnapshotObjects, MaxSnapshot) :
       LET al == allocate(EmptyHeap, objs, <<>>) IN
         /\ heap = al.heap
         /\ messages = al.msgs
         /\ snapshot = al.msgs
  /\ delta = [b \in Branches |-> <<>>]
  /\ done = <<>>
  /\ fpc = "running"
  /\ observed = [b \in Branches |-> <<>>]
  /\ left = <<>>
  /\ right = <<>>
  /\ pc = "idle"
  /\ heap0 = EmptyHeap
  /\ result = <<>>
  /\ CacheIdle
  /\ RouterIdle
  /\ AggIdle
  /\ TokenIdle
  /\ HandoffIdle
  /\ ConverseIdle

\* mutant: the update of a branch is merged as soon as the branch completes
BranchComplete_mergeAtOnce(b, objs) ==
  /\ fpc = "running"
  /\ b \notin Range(done)
  /\ LET al == allocate(heap, objs, <<>>)
         out == messagesStateReducer(al.heap, messages, al.msgs)
     IN /\ ~out.threw
        /\ heap' = out.heap
        /\ messages' = out.value
        /\ delta' = [c \in Branches |-> IF c = b THEN <<>> ELSE delta[c]]
  /\ observed' = [c \in Branches |-> IF c = b THEN messages ELSE observed[c]]
  /\ done' = Append(done, b)
  /\ UNCHANGED <<snapshot, fpc, left, right, pc, heap0, result, cacheVars, routerVars, aggVars, tokenVars, handoffVars, converseVars>>

\* branch b, whose node was given the canonical list as it stands, finishes
\* and reports its update
BranchComplete(b, objs) ==
  /\ fpc = "running"
  /\ b \notin Range(done)
  /\ LET al == allocate(heap, objs, <<>>) IN
       /\ heap' = al.heap
       /\ delta' = [c \in Branches |-> IF c = b THEN al.msgs ELSE delta[c]]
  /\ observed' = [c \in Branches |-> IF c = b THEN messages ELSE observed[c]]
  /\ done' = Append(done, b)
  /\ UNCHANGED <<messages, snapshot, fpc, left, right, pc, heap0, result, cacheVars, routerVars, aggVars, tokenVars, handoffVars, converseVars>>

\* the updates of the first k completed branches merged into the list, one
\* reducer call per branch, in completion order
RECURSIVE mergeInOrder(_, _, _)
mergeInOrder(h, msgs, k) ==
  IF k = 0 THEN [heap |-> h, threw |-> FALSE, value |-> msgs]
  ELSE LET sofar == mergeInOrder(h, msgs, k - 1) IN
       IF sofar.threw THEN sofar
       ELSE messagesStateReducer(sofar.heap, sofar.value, delta[done[k]])

\* every branch has completed: the fan-in merges the updates
FanIn ==
  /\ fpc = "running"
  /\ Range(done) = Branches
  /\ LET out == mergeInOrder(heap, messages, Len(done)) IN
       /\ ~out.threw
       /\ heap' = out.heap
       /\ messages' = out.value
  /\ fpc' = "merged"
  /\ UNCHANGED <<snapshot, delta, done, observed, left, right, pc, heap0, result, cacheVars, routerVars, aggVars, tokenVars, handoffVars, converseVars>>

FanNext ==
  \/ \E b \in Branches, objs \in SeqsUpTo(BranchObjects, MaxDelta) : BranchComplete(b, objs)
  \/ FanIn

SpecFan == FanInit /\ [][FanNext]_vars

----------------------------------------------------------------------------
(* Properties of the state store *)

IdsOf(h, msgs) == {h[msgs[i]].id : i \in 1..Len(msgs)}

RemoveAt(s, i) == SubSeq(s, 1, i - 1) \o SubSeq(s, i + 1, Len(s))

\* the update in flight is one tombstone whose id is in the canonical list
C3_Pre ==
  /\ pc = "pending"
  /\ Len(right) = 1
  /\ heap[right[1]].type = "remove"
  /\ ~IsRemoveAll(heap[right[1]])
  /\ heap[right[1]].id \in IdsOf(heap, messages)

\* C3 as stated: merging one tombstone whose id exists in L returns L with
\* exactly that entry removed; every other entry is kept, in the same order.
C3_RemovesExactlyOne ==
  [][C3_Pre =>
       /\ pc' = "returned"
       /\ \E i \in 1..Len(messages) :
            /\ heap[messages[i]].id = heap[right[1]].id
            /\ Deref(heap', messages') = RemoveAt(Deref(heap, messages), i)]_vars

\* The update in flight has no remove-all sentinel, so the merge loop runs, and
\* it holds a tombstone whose id is not in the running result: no message of
\* the canonical list and no earlier entry of the update carries that id.
C4_Pre ==
  /\ pc = "pending"
  /\ \A k \in 1..Len(right) : ~IsRemoveAll(heap[right[k]])
  /\ \E k \in 1..Len(right) :
       /\ heap[right[k]].type = "remove"
       /\ heap[right[k]].id \notin IdsOf(heap, messages)
       /\ heap[right[k]].id \notin IdsOf(heap, SubSeq(right, 1, k - 1))

C5_UniqueIds ==
  \A i, j \in 1..Len(messages) :
    i < j => heap[messages[i]].id # heap[messages[j]].id

----------------------------------------------------------------------------
(* Properties of the fan-in *)

AllDelta == delta[1] \o delta[2]

\* The updates hold new messages whose ids are disjoint from the snapshot and
\* from each other: no id of a new message is in the snapshot, and no two new
\* messages carry the same id (a message without id gets its own).
C6_Pre ==
  /\ fpc = "running"
  /\ Range(done) = Branches
  /\ \A i \in 1..Len(AllDelta) :
       /\ heap[AllDelta[i]].type # "remove"
       /\ heap[AllDelta[i]].id \notin IdsOf(heap, snapshot)
       /\ \A j \in 1..Len(AllDelta) :
            i < j =>
              \/ heap[AllDelta[i]].id = NoId
              \/ heap[AllDelta[i]].id # heap[AllDelta[j]].id

Occurrences(s, x) == Cardinality({i \in 1..Len(s) : s[i] = x})

\* C6: two branches started from the snapshot S with updates of new normal
\* messages whose ids are disjoint from S and from each other: after the
\* fan-in the list is S, then the update of the branch that completed first,
\* then the update of the other; every message of S and of both updates is in
\* it exactly once, with its type and (if it had one) its id.
C6_NoLostUpdate ==
  [][(C6_Pre /\ fpc' = "merged") =>
       /\ messages' = snapshot \o delta[done[1]] \o delta[done[2]]
       /\ \A r \in Range(snapshot) \cup Range(AllDelta) :
            /\ Occurrences(messages', r) = 1
            /\ heap'[r].type = heap[r].type
            /\ IF heap[r].id = NoId
               THEN heap'[r].id \notin IdsOf(heap, snapshot \o AllDelta)
               ELSE heap'[r].id = heap[r].id]_vars

C6_Witness ==
  /\ fpc = "merged"
  /\ done = <<2, 1>>
  /\ snapshot # <<>>
  /\ Len(delta[1]) = 2
  /\ delta[2] # <<>>
  /\ messages = snapshot \o delta[2] \o delta[1]

----------------------------------------------------------------------------
(* Part 2: the prompt-cache passes (cache.mjs)                              *)
(*   A content block is an object, so blocks live in a heap (a sequence:    *)
(*   reference -> block) and a content array is a sequence of references.   *)
(*   A key a block does not have is Absent.  The marker a pass writes has   *)
(*   the same value as one it finds; to tell them apart the model writes    *)
(*   "fresh" and the input holds "stale".                                   *)

Absent == "none"

TextBlock(text, cc) ==
  [type |-> "text", text |-> text, cache_control |-> cc, cachePoint |-> Absent]

ImageBlock(cc) ==
  [type |-> "image_url", text |-> Absent, cache_control |-> cc, cachePoint |-> Absent]

CachePointBlock(cp) ==
  [type |-> Absent, text |-> Absent, cache_control |-> Absent, cachePoint |-> cp]

StringContent(text) == [kind |-> "string", text |-> text, refs |-> <<>>]

ArrayContent(refs) == [kind |-> "array", text |-> Absent, refs |-> refs]

\* the contents a message of the payload can have, as the blocks of an array
\* or the text of a string
ContentChoices ==
  { [kind |-> "string", text |-> "x", blocks |-> <<>>],
    [kind |-> "string", text |-> "", blocks |-> <<>>],
    [kind |-> "array", text |-> Absent, blocks |-> <<>>],
    [kind |-> "array", text |-> Absent, blocks |-> <<TextBlock("x", Absent)>>],
    [kind |-> "array", text |-> Absent, blocks |-> <<TextBlock("", Absent)>>],
    [kind |-> "array", text |-> Absent, blocks |-> <<ImageBlock(Absent)>>],
    [kind |-> "array", text |-> Absent,
     blocks |-> <<TextBlock("x", "stale"), CachePointBlock("stale")>>],
    [kind |-> "array", text |-> Absent,
     blocks |-> <<TextBlock("x", Absent), ImageBlock("stale")>>],
    [kind |-> "array", text |-> Absent,
     blocks |-> <<TextBlock("x", Absent), TextBlock("", Absent)>>] }

\* message.getType() of the LangChain messages of a payload: one user-authored
\* type and one that is not
PayloadTypes == {"human", "ai"}

\* roleMap[msgType] || msgType
roleMap(msgType) ==
  CASE msgType = "human" -> "user"
    [] msgType = "ai" -> "assistant"
    [] msgType = "system" -> "system"
    [] msgType = "tool" -> "tool"
    [] OTHER -> msgType

\* A message object: obj is its identity (0 for an object a pass created), lc
\* says whether it is a LangChain message (it has getType and no role key; a
\* plain object has a role key and no getType).
LcMessage(obj, type, content) ==
  [obj |-> obj, lc |-> TRUE, type |-> type, role |-> Absent, content |-> content]

\* the payload built from a list of (type, content choice) pairs: message i is
\* object i and its blocks are new objects
RECURSIVE buildPayload(_, _, _)
buildPayload(h, choices, acc) ==
  IF choices = <<>> THEN [heap |-> h, msgs |-> acc]
  ELSE LET c == Head(choices)
           n == Len(c.content.blocks)
           refs == [k \in 1..n |-> Len(h) + k]
           content == [kind |-> c.content.kind, text |-> c.content.text, refs |-> refs]
       IN buildPayload(h \o c.content.blocks, Tail(choices),
                       Append(acc, LcMessage(Len(acc) + 1, c.type, content)))

\* mutant: the array of the message itself, with the blocks it holds
deepCloneContent_shared(h, content) == [heap |-> h, content |-> content]

\* deepCloneContent: a string is returned as it is, an array becomes a new
\* array of shallow copies of its blocks
deepCloneContent(h, content) ==
  IF content.kind = "array"
  THEN [heap |-> h \o [k \in 1..Len(content.refs) |-> h[content.refs[k]]],
        content |-> ArrayContent([k \in 1..Len(content.refs) |-> Len(h) + k])]
  ELSE [heap |-> h, content |-> content]

\* cloneMessage: a new plain object with the message's own fields, the given
\* content and, when the message has getType and no role, the role derived
\* from its type
cloneMessage(message, content) ==
  [obj |-> 0, lc |-> FALSE, type |-> Absent,
   role |-> IF message.lc /\ message.role = Absent
            THEN roleMap(message.type) ELSE message.role,
   content |-> content]

isCachePoint(block) == block.cachePoint # Absent /\ block.type = Absent

needsCacheStripping(h, content) ==
  \E k \in 1..Len(content.refs) :
    isCachePoint(h[content.refs[k]]) \/ h[content.refs[k]].cache_control # Absent

\* mutant: the filter keeps every block
withoutCachePoints_keep(h, content) == ArrayContent(content.refs)

\* content.filter((block) => !isCachePoint(block))
withoutCachePoints(h, content) ==
  ArrayContent(SelectSeq(content.refs, LAMBDA r : ~isCachePoint(h[r])))

\* mutant: no cache_control field is deleted
deleteCacheControl_none(h, content) == h

\* for every block of the array: delete block.cache_control
deleteCacheControl(h, content) ==
  [r \in 1..Len(h) |->
     IF r \in Range(content.refs) THEN [h[r] EXCEPT !.cache_control = Absent] ELSE h[r]]

\* workingContent of a mark pass: the copy without markers of either format
\* for an array, a one-block array for a string, an empty array otherwise
workingContentOf(h, content) ==
  IF content.kind = "array"
  THEN LET cl == deepCloneContent(h, content)
           kept == withoutCachePoints(cl.heap, cl.content)
       IN [heap |-> deleteCacheControl(cl.heap, kept), content |-> kept]
  ELSE IF content.kind = "string"
  THEN [heap |-> Append(h, TextBlock(content.text, Absent)),
        content |-> ArrayContent(<<Len(h) + 1>>)]
  ELSE [heap |-> h, content |-> ArrayContent(<<>>)]

\* contentPart.cache_control = { type: 'ephemeral' }
setCacheControl(h, ref) ==
  [r \in 1..Len(h) |-> IF r = ref THEN [h[r] EXCEPT !.cache_control = "fresh"] ELSE h[r]]

isUserMessage(message) ==
  \/ message.lc /\ message.type = "human"
  \/ message.role # Absent /\ message.role = "user"

\* the last block of the array whose type is 'text' (0 when it has none)
lastTextBlock(h, content) ==
  LET texts == {j \in 1..Len(content.refs) : h[content.refs[j]].type = "text"}
  IN IF texts = {} THEN 0 ELSE CHOOSE j \in texts : \A k \in texts : k <= j

\* one iteration of the loop of addCacheControl, for the message at index i;
\* st holds the heap, updatedMessages and userMessagesModified
addCacheControlStep(st, i) ==
  LET originalMessage == st.updatedMessages[i]
      content == originalMessage.content
      isUser == isUserMessage(originalMessage)
      hasArrayContent == content.kind = "array"
      needsStripping == hasArrayContent /\ needsCacheStripping(st.heap, content)
      needsCacheAdd ==
        /\ st.userMessagesModified < 2
        /\ isUser
        /\ (content.kind = "string" \/ hasArrayContent)
      w == workingContentOf(st.heap, content)
      j == lastTextBlock(w.heap, w.content)
  IN IF ~needsStripping /\ ~needsCacheAdd THEN st
     ELSE IF st.userMessagesModified >= 2 \/ ~isUser
     THEN [st EXCEPT !.heap = w.heap,
                     !.updatedMessages[i] = cloneMessage(originalMessage, w.content)]
     ELSE IF j = 0
     THEN [st EXCEPT !.heap = w.heap,
                     !.updatedMessages[i] = cloneMessage(originalMessage, w.content)]
     ELSE [st EXCEPT !.heap = setCacheControl(w.heap, w.content.refs[j]),
                     !.userMessagesModified = @ + 1,
                     !.updatedMessages[i] = cloneMessage(originalMessage, w.content)]

\* the loop of addCacheControl from the last message down to message i
RECURSIVE addCacheControlLoop(_, _, _)
addCacheControlLoop(h, msgs, i) ==
  IF i > Len(msgs)
  THEN [heap |-> h, updatedMessages |-> msgs, userMessagesModified |-> 0]
  ELSE addCacheControlStep(addCacheControlLoop(h, msgs, i + 1), i)

\* addCacheControl: the heap it leaves, the list it returns and whether that
\* list is the array it was given
addCacheControl(h, msgs) ==
  IF Len(msgs) < 2 THEN [heap |-> h, value |-> msgs, sameList |-> TRUE]
  ELSE LET st == addCacheControlLoop(h, msgs, 1)
       IN [heap |-> st.heap, value |-> st.updatedMessages, sameList |-> FALSE]

PayloadChoices == [type : PayloadTypes, content : ContentChoices]

CacheInit ==
  /\ \E choices \in SeqsUpTo(PayloadChoices, MaxMsgs) :
       LET b == buildPayload(<<>>, choices, <<>>) IN
         /\ blocks = b.heap
         /\ blocks0 = b.heap
         /\ payload = b.msgs
  /\ marked = <<>>
  /\ cpc = "ready"
  /\ passes = <<>>
  /\ heap = EmptyHeap
  /\ left = <<>>
  /\ right = <<>>
  /\ pc = "idle"
  /\ heap0 = EmptyHeap
  /\ result = <<>>
  /\ messages = <<>>
  /\ FanIdle
  /\ RouterIdle
  /\ AggIdle
  /\ TokenIdle
  /\ HandoffIdle
  /\ ConverseIdle

\* addCacheControl(payload) runs to its end
AddCacheControl ==
  /\ cpc = "ready"
  /\ LET out == addCacheControl(blocks, payload) IN
       /\ blocks' = out.heap
       /\ marked' = out.value
       /\ passes' = <<[fn |-> "addCacheControl", sameList |-> out.sameList]>>
  /\ cpc' = "done"
  /\ UNCHANGED <<blocks0, payload, reducerVars, fanVars, routerVars, aggVars, tokenVars, handoffVars, converseVars>>

CacheANext == AddCacheControl

SpecCacheA == CacheInit /\ [][CacheANext]_vars

----------------------------------------------------------------------------
(* Properties of the Profile-A mark pass *)

\* the message has a cache_control field written by this pass
HasFreshMarker(h, message) ==
  \E k \in 1..Len(message.content.refs) : h[message.content.refs[k]].cache_control = "fresh"

\* the message has a marker of either format that this pass did not write
HasStaleMarker(h, message) ==
  \E k \in 1..Len(message.content.refs) :
    \/ h[message.content.refs[k]].cache_control = "stale"
    \/ h[message.content.refs[k]].cachePoint # Absent

\* user-authored, with at least one non-empty text block (a non-empty string
\* content is one text block)
EligibleA(h, message) ==
  /\ isUserMessage(message)
  /\ \/ message.content.kind = "string" /\ message.content.text # ""
     \/ \E k \in 1..Len(message.content.refs) :
          /\ h[message.content.refs[k]].type = "text"
          /\ h[message.content.refs[k]].text # ""

Min(a, b) == IF a <= b THEN a ELSE b

EligibleCount == Cardinality({i \in 1..Len(payload) : EligibleA(blocks0, payload[i])})

FreshCount == Cardinality({i \in 1..Len(marked) : HasFreshMarker(blocks, marked[i])})

\* C10 as stated: for a list of at least 2 messages of which k are Profile-A
\* eligible, exactly min(2, k) messages of the output carry a fresh
\* cache_control marker and no message carries any other marker.
C10_ExactlyMinTwoEligible ==
  (cpc = "done" /\ Len(payload) >= 2) =>
    /\ Len(marked) = Len(payload)
    /\ FreshCount = Min(2, EligibleCount)
    /\ \A i \in 1..Len(marked) : ~HasStaleMarker(blocks, marked[i])

----------------------------------------------------------------------------
(* The Bedrock mark pass and the two strip passes (cache.mjs)              *)

isToolMessage(message) == message.lc /\ message.type = "tool"

\* some block of type text has a string text that is not empty
hasCacheableContent(h, content) ==
  \E k \in 1..Len(content.refs) :
    /\ h[content.refs[k]].type = "text"
    /\ h[content.refs[k]].text # Absent
    /\ h[content.refs[k]].text # ""

\* the last block of type text whose text is neither '' nor undefined (0 when
\* there is none)
lastNonEmptyTextBlock(h, content) ==
  LET texts == {j \in 1..Len(content.refs) :
                  /\ h[content.refs[j]].type = "text"
                  /\ h[content.refs[j]].text # ""
                  /\ h[content.refs[j]].text # Absent}
  IN IF texts = {} THEN 0 ELSE CHOOSE j \in texts : \A k \in texts : k <= j

\* workingContent.splice(j + 1, 0, { cachePoint }) and, for j = Len,
\* workingContent.push({ cachePoint }): the block is a new object
insertCachePoint(h, content, j) ==
  [heap |-> Append(h, CachePointBlock("fresh")),
   content |-> ArrayContent(SubSeq(content.refs, 1, j) \o <<Len(h) + 1>>
                            \o SubSeq(content.refs, j + 1, Len(content.refs)))]

\* one iteration of the loop of addBedrockCacheControl, for the message at
\* index i; st holds the heap, updatedMessages and messagesModified
addBedrockCacheControlStep(st, i) ==
  LET originalMessage == st.updatedMessages[i]
      content == originalMessage.content
      isTool == isToolMessage(originalMessage)
      hasArrayContent == content.kind = "array"
      needsStripping == hasArrayContent /\ needsCacheStripping(st.heap, content)
      isEmptyString == content.kind = "string" /\ content.text = ""
      needsCacheAdd ==
        /\ st.messagesModified < 2
        /\ ~isTool
        /\ ~isEmptyString
        /\ (content.kind = "string" \/ hasArrayContent)
      w == workingContentOf(st.heap, content)
      j == lastNonEmptyTextBlock(w.heap, w.content)
      ins == insertCachePoint(w.heap, w.content,
                              IF j = 0 THEN Len(w.content.refs) ELSE j)
      cloned == [heap |-> w.heap,
                 updatedMessages |->
                   [k \in 1..Len(st.updatedMessages) |->
                      IF k = i THEN cloneMessage(originalMessage, w.content)
                      ELSE st.updatedMessages[k]],
                 messagesModified |-> st.messagesModified]
  IN IF ~needsStripping /\ ~needsCacheAdd THEN st
     ELSE IF st.messagesModified >= 2 \/ isTool \/ isEmptyString THEN cloned
     ELSE IF Len(w.content.refs) = 0 THEN st
     ELSE IF ~hasCacheableContent(w.heap, w.content) THEN cloned
     ELSE [heap |-> ins.heap,
           updatedMessages |->
             [k \in 1..Len(st.updatedMessages) |->
                IF k = i THEN cloneMessage(originalMessage, ins.content)
                ELSE st.updatedMessages[k]],
           messagesModified |-> st.messagesModified + 1]

\* the loop of addBedrockCacheControl from the last message down to message i
RECURSIVE addBedrockCacheControlLoop(_, _, _)
addBedrockCacheControlLoop(h, msgs, i) ==
  IF i > Len(msgs)
  THEN [heap |-> h, updatedMessages |-> msgs, messagesModified |-> 0]
  ELSE addBedrockCacheControlStep(addBedrockCacheControlLoop(h, msgs, i + 1), i)

\* mutant: the loop runs whatever the length of the list
addBedrockCacheControl_anyLength(h, msgs) ==
  LET st == addBedrockCacheControlLoop(h, msgs, 1)
  IN [heap |-> st.heap, value |-> st.updatedMessages, sameList |-> FALSE]

\* addBedrockCacheControl: the heap it leaves, the list it returns and whether
\* that list is the array it was given
addBedrockCacheControl(h, msgs) ==
  IF Len(msgs) < 2 THEN [heap |-> h, value |-> msgs, sameList |-> TRUE]
  ELSE LET st == addBedrockCacheControlLoop(h, msgs, 1)
       IN [heap |-> st.heap, value |-> st.updatedMessages, sameList |-> FALSE]

hasAnthropicCacheControl(h, content) ==
  \E k \in 1..Len(content.refs) : h[content.refs[k]].cache_control # Absent

\* mutant: only the first block is looked at
hasBedrockCachePoint_first(h, content) ==
  Len(content.refs) > 0 /\ isCachePoint(h[content.refs[1]])

hasBedrockCachePoint(h, content) ==
  \E k \in 1..Len(content.refs) : isCachePoint(h[content.refs[k]])

\* stripAnthropicCacheControl: messages 1..i of the list after the pass
RECURSIVE stripAnthropicLoop(_, _, _)
stripAnthropicLoop(h, msgs, i) ==
  IF i = 0 THEN [heap |-> h, value |-> <<>>]
  ELSE LET before == stripAnthropicLoop(h, msgs, i - 1)
           originalMessage == msgs[i]
           content == originalMessage.content
           cl == deepCloneContent(before.heap, content)
       IN IF content.kind # "array" \/ ~hasAnthropicCacheControl(h, content)
          THEN [heap |-> before.heap, value |-> Append(before.value, originalMessage)]
          ELSE [heap |-> deleteCacheControl(cl.heap, cl.content),
                value |-> Append(before.value, cloneMessage(originalMessage, cl.content))]

stripAnthropicCacheControl(h, msgs) ==
  LET out == stripAnthropicLoop(h, msgs, Len(msgs))
  IN [heap |-> out.heap, value |-> out.value, sameList |-> FALSE]

\* stripBedrockCacheControl: messages 1..i of the list after the pass
RECURSIVE stripBedrockLoop(_, _, _)
stripBedrockLoop(h, msgs, i) ==
  IF i = 0 THEN [heap |-> h, value |-> <<>>]
  ELSE LET before == stripBedrockLoop(h, msgs, i - 1)
           originalMessage == msgs[i]
           content == originalMessage.content
           cl == deepCloneContent(before.heap, content)
           kept == withoutCachePoints(cl.heap, cl.content)
       IN IF content.kind # "array" \/ ~hasBedrockCachePoint(h, content)
          THEN [heap |-> before.heap, value |-> Append(before.value, originalMessage)]
          ELSE [heap |-> cl.heap,
                value |-> Append(before.value, cloneMessage(originalMessage, kept))]

stripBedrockCacheControl(h, msgs) ==
  LET out == stripBedrockLoop(h, msgs, Len(msgs))
  IN [heap |-> out.heap, value |-> out.value, sameList |-> FALSE]

----------------------------------------------------------------------------
(* One pass on an arbitrary payload, then a second pass on what it returned *)

PassNames ==
  {"addCacheControl", "addBedrockCacheControl",
   "stripAnthropicCacheControl", "stripBedrockCacheControl"}

MarkPasses == {"addCacheControl", "addBedrockCacheControl"}

runPass(fn, h, msgs) ==
  CASE fn = "addCacheControl" -> addCacheControl(h, msgs)
    [] fn = "addBedrockCacheControl" -> addBedrockCacheControl(h, msgs)
    [] fn = "stripAnthropicCacheControl" -> stripAnthropicCacheControl(h, msgs)
    [] fn = "stripBedrockCacheControl" -> stripBedrockCacheControl(h, msgs)

\* the contents of the messages of a payload: marker-free ones and one that
\* holds a marker of each format
PassContents ==
  { [kind |-> "string", text |-> "x", blocks |-> <<>>],
    [kind |-> "string", text |-> "", blocks |-> <<>>],
    [kind |-> "array", text |-> Absent, blocks |-> <<>>],
    [kind |-> "array", text |-> Absent, blocks |-> <<TextBlock("x", Absent)>>],
    [kind |-> "array", text |-> Absent, blocks |-> <<TextBlock("", Absent)>>],
    [kind |-> "array", text |-> Absent, blocks |-> <<ImageBlock(Absent)>>],
    [kind |-> "array", text |-> Absent, blocks |-> <<CachePointBlock("stale")>>],
    [kind |-> "array", text |-> Absent,
     blocks |-> <<TextBlock("x", "stale"), CachePointBlock("stale")>>] }

\* what a tool result holds
ToolContents ==
  { c \in PassContents :
      \/ c.kind = "string" /\ c.text = "x"
      \/ c.kind = "array" /\ Len(c.blocks) = 2 }

\* what an assistant turn holds
AiContents ==
  ToolContents \cup
    { c \in PassContents : c.kind = "array" /\ c.blocks = <<TextBlock("x", Absent)>> }

PassChoices ==
  [type : {"human"}, content : PassContents]
    \cup [type : {"ai"}, content : AiContents]
    \cup [type : {"tool"}, content : ToolContents]

\* a marker that a pass finds is, for that pass, a marker it did not write
asFound(block) ==
  [type |-> block.type, text |-> block.text,
   cache_control |-> IF block.cache_control = Absent THEN Absent ELSE "stale",
   cachePoint |-> IF block.cachePoint = Absent THEN Absent ELSE "stale"]

\* the list a pass returned, handed to the next pass: the same message objects
\* (now object i at position i) and the same blocks
RECURSIVE handOver(_, _, _, _)
handOver(h, msgs, hacc, acc) ==
  IF msgs = <<>> THEN [heap |-> hacc, msgs |-> acc]
  ELSE LET m == Head(msgs)
           n == Len(m.content.refs)
           content == [kind |-> m.content.kind, text |-> m.content.text,
                       refs |-> [k \in 1..n |-> Len(hacc) + k]]
       IN handOver(h, Tail(msgs),
                   hacc \o [k \in 1..n |-> asFound(h[m.content.refs[k]])],
                   Append(acc, [obj |-> Len(acc) + 1, lc |-> m.lc, type |-> m.type,
                                role |-> m.role, content |-> content]))

\* the second pass the pipeline runs after a first one: the same pass again,
\* or a strip pass after a mark pass
FollowUps(first) ==
  IF first \in MarkPasses
  THEN {first, "stripAnthropicCacheControl", "stripBedrockCacheControl"}
  ELSE {first}

PassInit ==
  /\ \E choices \in SeqsUpTo(PassChoices, MaxPayload) :
       LET b == buildPayload(<<>>, choices, <<>>) IN
         /\ blocks = b.heap
         /\ blocks0 = b.heap
         /\ payload = b.msgs
  /\ marked = <<>>
  /\ cpc = "ready"
  /\ passes = <<>>
  /\ heap = EmptyHeap
  /\ left = <<>>
  /\ right = <<>>
  /\ pc = "idle"
  /\ heap0 = EmptyHeap
  /\ result = <<>>
  /\ messages = <<>>
  /\ FanIdle
  /\ RouterIdle
  /\ AggIdle
  /\ TokenIdle
  /\ HandoffIdle
  /\ ConverseIdle

\* fn(payload) runs to its end
FirstPass(fn) ==
  /\ cpc = "ready"
  /\ LET out == runPass(fn, blocks, payload) IN
       /\ blocks' = out.heap
       /\ marked' = out.value
       /\ passes' = <<[fn |-> fn, sameList |-> out.sameList]>>
  /\ cpc' = "done"
  /\ UNCHANGED <<blocks0, payload, reducerVars, fanVars, routerVars, aggVars, tokenVars, handoffVars, converseVars>>

\* fn runs on the list the first pass returned
SecondPass(fn) ==
  /\ cpc = "done"
  /\ fn \in FollowUps(passes[1].fn)
  /\ LET in == handOver(blocks, marked, <<>>, <<>>)
         out == runPass(fn, in.heap, in.msgs)
     IN /\ blocks0' = in.heap
        /\ payload' = in.msgs
        /\ blocks' = out.heap
        /\ marked' = out.value
        /\ passes' = Append(passes, [fn |-> fn, sameList |-> out.sameList])
  /\ cpc' = "again"
  /\ UNCHANGED <<reducerVars, fanVars, routerVars, aggVars, tokenVars, handoffVars, converseVars>>

PassNext ==
  \/ \E fn \in PassNames : FirstPass(fn)
  \/ \E fn \in PassNames : SecondPass(fn)

SpecPasses == PassInit /\ [][PassNext]_vars

----------------------------------------------------------------------------
(* A conversation over several turns: each turn appends messages without  *)
(* markers to the payload of the turn before and runs one mark pass on it *)

TurnContents ==
  { c \in PassContents :
      \/ c.kind = "string" /\ c.text = "x"
      \/ c.kind = "array" /\ c.blocks = <<TextBlock("x", Absent)>> }

TurnChoices ==
  [type : {"human", "ai", "tool"}, content : TurnContents]
    \cup [type : {"human"}, content : {c \in PassContents : c.kind = "string"}]

TurnInit ==
  /\ blocks = <<>>
  /\ blocks0 = <<>>
  /\ payload = <<>>
  /\ marked = <<>>
  /\ cpc = "turn"
  /\ passes = <<>>
  /\ heap = EmptyHeap
  /\ left = <<>>
  /\ right = <<>>
  /\ pc = "idle"
  /\ heap0 = EmptyHeap
  /\ result = <<>>
  /\ messages = <<>>
  /\ FanIdle
  /\ RouterIdle
  /\ AggIdle
  /\ TokenIdle
  /\ HandoffIdle
  /\ ConverseIdle

\* one turn: the messages `new` are appended to what the last pass returned
\* and fn runs on the result
Turn(new, fn) ==
  /\ cpc = "turn"
  /\ new # <<>>
  /\ LET before == handOver(blocks, marked, <<>>, <<>>)
         in == buildPayload(before.heap, new, before.msgs)
         out == runPass(fn, in.heap, in.msgs)
     IN /\ blocks0' = in.heap
        /\ payload' = in.msgs
        /\ blocks' = out.heap
        /\ marked' = out.value
        /\ passes' = <<[fn |-> fn, sameList |-> out.sameList]>>
  /\ UNCHANGED <<cpc, reducerVars, fanVars, routerVars, aggVars, tokenVars, handoffVars, converseVars>>

TurnNext ==
  \E new \in SeqsUpTo(TurnChoices, MaxConv - Len(marked)) :
    \E fn \in MarkPasses : Turn(new, fn)

SpecTurns == TurnInit /\ [][TurnNext]_vars

----------------------------------------------------------------------------
(* Properties of the passes *)

LastPass == passes[Len(passes)].fn

\* markers of the message that were there before the pass
StaleMarkers(h, message) ==
  {k \in 1..Len(message.content.refs) :
     \/ h[message.content.refs[k]].cache_control = "stale"
     \/ h[message.content.refs[k]].cachePoint = "stale"}

\* markers of the message that the pass wrote
FreshMarkers(h, message) ==
  {k \in 1..Len(message.content.refs) :
     \/ h[message.content.refs[k]].cache_control = "fresh"
     \/ h[message.content.refs[k]].cachePoint = "fresh"}

\* C11, for the lists a mark pass works on (at least 2 messages): after
\* addCacheControl or addBedrockCacheControl no message of the output holds a
\* cache_control field or a cachePoint block that was there before the pass.
C11_NoStaleMarkerSurvives ==
  (cpc = "done" /\ LastPass \in MarkPasses /\ Len(payload) >= 2) =>
    \A i \in 1..Len(marked) : StaleMarkers(blocks, marked[i]) = {}

\* the cache_control fields in the messages of a list
AnthropicMarkers(h, msgs) ==
  {<<i, k>> \in (1..Len(msgs)) \X (1..Len(h)) :
     /\ k \in Range(msgs[i].content.refs)
     /\ h[k].cache_control # Absent}

\* the cachePoint blocks in the messages of a list
BedrockMarkers(h, msgs) ==
  {<<i, k>> \in (1..Len(msgs)) \X (1..Len(h)) :
     /\ k \in Range(msgs[i].content.refs)
     /\ h[k].cachePoint # Absent}

\* C12: from a conversation without markers, after any sequence of turns that
\* each append messages without markers and run one mark pass of either
\* profile, the payload holds at most 2 markers of the format of the last
\* pass and no marker of the other format.
C12_AtMostTwoLiveMarkers ==
  (cpc = "turn" /\ passes # <<>>) =>
    IF LastPass = "addCacheControl"
    THEN /\ Cardinality(AnthropicMarkers(blocks, marked)) <= 2
         /\ BedrockMarkers(blocks, marked) = {}
    ELSE /\ Cardinality(BedrockMarkers(blocks, marked)) <= 2
         /\ AnthropicMarkers(blocks, marked) = {}

\* a turn under Profile A on a payload that held 2 Profile-B markers and now
\* holds 2 Profile-A markers
C12_Witness ==
  /\ cpc = "turn"
  /\ passes # <<>>
  /\ LastPass = "addCacheControl"
  /\ Cardinality(BedrockMarkers(blocks0, payload)) = 2
  /\ Cardinality(AnthropicMarkers(blocks, marked)) = 2

\* the second pass ran, on what addCacheControl returned
AfterAnthropicMark(fn) ==
  /\ cpc = "again"
  /\ passes[1].fn = "addCacheControl"
  /\ LastPass = fn

\* C13 as stated: stripBedrockCacheControl on the output of addCacheControl
\* yields a payload with no marker of either profile.
C13_BedrockStripLeavesNoMarker ==
  AfterAnthropicMark("stripBedrockCacheControl") =>
    /\ AnthropicMarkers(blocks, marked) = {}
    /\ BedrockMarkers(blocks, marked) = {}

\* C13, amended: on the output of addCacheControl for a list of at least 2
\* messages, stripBedrockCacheControl returns every message object as it is,
\* cache_control fields included (there is no cachePoint block to remove), and
\* stripAnthropicCacheControl yields a payload with no marker of either profile.
C13_StripsAfterAnthropicMark ==
  /\ (AfterAnthropicMark("stripBedrockCacheControl") /\ Len(payload) >= 2) =>
       /\ marked = payload
       /\ BedrockMarkers(blocks, marked) = {}
       /\ AnthropicMarkers(blocks, marked) = AnthropicMarkers(blocks0, payload)
  /\ (AfterAnthropicMark("stripAnthropicCacheControl") /\ Len(payload) >= 2) =>
       /\ AnthropicMarkers(blocks, marked) = {}
       /\ BedrockMarkers(blocks, marked) = {}

\* stripBedrockCacheControl ran on a payload in which addCacheControl had
\* marked 2 messages, and both markers are still there
C13_Witness ==
  /\ AfterAnthropicMark("stripBedrockCacheControl")
  /\ Cardinality(AnthropicMarkers(blocks0, payload)) = 2
  /\ Cardinality(AnthropicMarkers(blocks, marked)) = 2

\* the markers of one message: its blocks that are cachePoint blocks or hold a
\* cache_control field
MarkersOf(h, message) ==
  {k \in 1..Len(message.content.refs) :
     \/ h[message.content.refs[k]].cache_control # Absent
     \/ h[message.content.refs[k]].cachePoint # Absent}

\* the content of a message without its markers
Unmarked(h, message) ==
  [kind |-> message.content.kind,
   text |-> message.content.text,
   blocks |-> LET kept == SelectSeq(message.content.refs,
                                    LAMBDA r : h[r].cachePoint = Absent)
              IN [k \in 1..Len(kept) |->
                    [type |-> h[kept[k]].type, text |-> h[kept[k]].text]]]

\* the same mark pass ran twice, the second time on what the first returned
RanTwice(fn) ==
  /\ cpc = "again"
  /\ passes[1].fn = fn
  /\ passes[2].fn = fn

\* C14, for lists of at least 2 messages: for either profile, the mark pass
\* run on its own output returns a payload in which the same positions carry
\* the markers, each marked message carries exactly one marker, and the rest
\* of every content is equal to that of the first output.
C14_MarkPassIdempotent ==
  ((RanTwice("addCacheControl") \/ RanTwice("addBedrockCacheControl"))
     /\ Len(payload) >= 2) =>
    /\ Len(marked) = Len(payload)
    /\ \A i \in 1..Len(marked) :
         /\ (MarkersOf(blocks, marked[i]) = {}) = (MarkersOf(blocks0, payload[i]) = {})
         /\ Cardinality(MarkersOf(blocks, marked[i])) <= 1
         /\ Unmarked(blocks, marked[i]) = Unmarked(blocks0, payload[i])

\* the pass neither removed a marker from message i nor added one to it
NoMarkerChange(i) ==
  /\ FreshMarkers(blocks, marked[i]) = {}
  /\ Cardinality(MarkersOf(blocks, marked[i])) = Cardinality(MarkersOf(blocks0, payload[i]))

\* message i of the output is the object that was message i of the input
IdenticalObject(i) == marked[i] = payload[i]

\* C15: in the output of a mark pass or of a strip pass, every message from
\* which no marker was removed and to which none was added is the identical
\* input object.
C15_CopyOnWrite ==
  cpc = "done" =>
    /\ Len(marked) = Len(payload)
    /\ \A i \in 1..Len(marked) : NoMarkerChange(i) => IdenticalObject(i)

\* C16: given a list of fewer than 2 messages, addCacheControl and
\* addBedrockCacheControl return the list they were given, with the same
\* message objects and no block added, removed or changed.
C16_ShortListReturnedAsIs ==
  (cpc = "done" /\ LastPass \in MarkPasses /\ Len(payload) < 2) =>
    /\ passes[1].sameList
    /\ marked = payload
    /\ blocks = blocks0

\* addBedrockCacheControl returned a one-message list whose message holds
\* markers of both formats
C16_Witness ==
  /\ cpc = "done"
  /\ LastPass = "addBedrockCacheControl"
  /\ Len(payload) = 1
  /\ Cardinality(MarkersOf(blocks0, payload[1])) = 2
  /\ marked = payload

\* a tool result: a LangChain tool message or a plain object with role 'tool'
IsToolResult(message) ==
  \/ message.lc /\ message.type = "tool"
  \/ message.role # Absent /\ message.role = "tool"

\* the content has at least one non-empty text block (a non-empty string
\* content is one text block)
HasNonEmptyText(h, message) ==
  \/ message.content.kind = "string" /\ message.content.text # ""
  \/ \E k \in 1..Len(message.content.refs) :
       /\ h[message.content.refs[k]].type = "text"
       /\ h[message.content.refs[k]].text # Absent
       /\ h[message.content.refs[k]].text # ""

\* not a tool result, with at least one non-empty text block
EligibleB(h, message) == ~IsToolResult(message) /\ HasNonEmptyText(h, message)

\* message i of the input is eligible for the profile of the pass that ran
EligibleAt(i) ==
  IF LastPass = "addCacheControl" THEN EligibleA(blocks0, payload[i])
  ELSE EligibleB(blocks0, payload[i])

\* the pass wrote a marker on message i
MarkedAt(i) == FreshMarkers(blocks, marked[i]) # {}

\* a mark pass ran on a list of at least 2 messages
MarkPassRan == cpc = "done" /\ LastPass \in MarkPasses /\ Len(payload) >= 2

\* C32: the messages a mark pass marks are the eligible messages closest to
\* the end: every eligible message after a marked one is marked, and an
\* eligible message with fewer than 2 eligible messages after it is marked
\* (ineligible messages in between do not use up the limit).
C32_MarksClosestToEnd ==
  MarkPassRan =>
    \A j \in 1..Len(payload) :
      EligibleAt(j) =>
        /\ (\E i \in 1..(j - 1) : MarkedAt(i)) => MarkedAt(j)
        /\ Cardinality({k \in (j + 1)..Len(payload) : EligibleAt(k)}) < 2 => MarkedAt(j)

\* the blocks of message i of the output that carry a cache_control field
ControlledBlocks(i) ==
  {k \in 1..Len(marked[i].content.refs) :
     blocks[marked[i].content.refs[k]].cache_control # Absent}

\* C33: addCacheControl attaches a marker only to a user-authored message
\* with at least one non-empty text block, and there on the last text block
\* alone; a user message whose only text is empty and every non-user message
\* get no marker.
C33_ProfileAMarksOnlyEligible ==
  (cpc = "done" /\ LastPass = "addCacheControl" /\ Len(payload) >= 2) =>
    \A i \in 1..Len(marked) :
      IF EligibleA(blocks0, payload[i])
      THEN ControlledBlocks(i) \subseteq {lastTextBlock(blocks, marked[i].content)}
      ELSE ControlledBlocks(i) = {}

\* the cachePoint blocks the pass inserted in message i of the output
InsertedPoints(i) ==
  {k \in 1..Len(marked[i].content.refs) :
     blocks[marked[i].content.refs[k]].cachePoint = "fresh"}

\* type and text of the blocks of a message that are not cachePoint blocks,
\* in their order (a string content is one text block)
PlainBlocks(h, message) ==
  IF message.content.kind = "string"
  THEN <<[type |-> "text", text |-> message.content.text]>>
  ELSE Unmarked(h, message).blocks

\* addBedrockCacheControl ran, as first or as second pass, on a list of at
\* least 2 messages
BedrockMarkRan ==
  /\ cpc \in {"done", "again"}
  /\ LastPass = "addBedrockCacheControl"
  /\ Len(payload) >= 2

\* C34: addBedrockCacheControl never marks a tool result or a message without
\* a non-empty text block (empty content included), clones of an earlier
\* pass included; in a message it marks it inserts exactly one cachePoint
\* block, right after the last non-empty text block, and the other blocks
\* keep their order.
C34_ProfileBMarksOnlyEligible ==
  BedrockMarkRan =>
    \A i \in 1..Len(marked) :
      /\ ~EligibleB(blocks0, payload[i]) => InsertedPoints(i) = {}
      /\ InsertedPoints(i) # {} =>
           /\ Cardinality(InsertedPoints(i)) = 1
           /\ \A k \in InsertedPoints(i) :
                k - 1 = lastNonEmptyTextBlock(blocks, marked[i].content)
           /\ PlainBlocks(blocks, marked[i]) = PlainBlocks(blocks0, payload[i])

\* C35: after a mark pass or a strip pass every content block of the input is
\* what it was before the call, every input message that is in the output is
\* unchanged there, and a pass that returns the list it was given returns it
\* with the messages it held.
C35_InputNotMutated ==
  cpc \in {"done", "again"} =>
    /\ Len(blocks) >= Len(blocks0)
    /\ \A r \in 1..Len(blocks0) : blocks[r] = blocks0[r]
    /\ Len(marked) = Len(payload)
    /\ \A i \in 1..Len(marked) : marked[i].obj # 0 => marked[i] = payload[i]
    /\ passes[Len(passes)].sameList => marked = payload

\* a mark pass removed a marker from a message and wrote its own on the
\* copy; the input message still holds the marker it had
C35_Witness ==
  /\ cpc = "done"
  /\ LastPass \in MarkPasses
  /\ \E i \in 1..Len(payload) :
       /\ StaleMarkers(blocks0, payload[i]) # {}
       /\ StaleMarkers(blocks, payload[i]) = StaleMarkers(blocks0, payload[i])
       /\ StaleMarkers(blocks, marked[i]) = {}
       /\ FreshMarkers(blocks, marked[i]) # {}

StripPasses == {"stripAnthropicCacheControl", "stripBedrockCacheControl"}

\* the blocks of a content, as they are
BlocksIn(h, content) == [k \in 1..Len(content.refs) |-> h[content.refs[k]]]

\* what stripAnthropicCacheControl is to leave of a content: every block,
\* without its cache_control field
WithoutControl(h, content) ==
  [k \in 1..Len(content.refs) |->
     [type |-> h[content.refs[k]].type, text |-> h[content.refs[k]].text,
      cache_control |-> Absent, cachePoint |-> h[content.refs[k]].cachePoint]]

\* what stripBedrockCacheControl is to leave of a content: every block that
\* is not a cachePoint block, as it is
WithoutPoints(h, content) ==
  LET kept == SelectSeq(content.refs, LAMBDA r : h[r].cachePoint = Absent)
  IN [k \in 1..Len(kept) |-> h[kept[k]]]

\* role of a message as the provider sees it
RoleOf(message) == IF message.lc THEN roleMap(message.type) ELSE message.role

\* C36: stripAnthropicCacheControl removes every cache_control field and
\* nothing else, stripBedrockCacheControl removes every cachePoint block and
\* nothing else: the messages, their number and order, the other blocks, their
\* order and the markers of the other format stay; a strip pass run on its
\* own output returns the same messages with the same blocks.
C36_StripRemovesOnlyItsFormat ==
  (cpc \in {"done", "again"} /\ LastPass \in StripPasses) =>
    /\ Len(marked) = Len(payload)
    /\ \A i \in 1..Len(marked) :
         /\ RoleOf(marked[i]) = RoleOf(payload[i])
         /\ marked[i].content.kind = payload[i].content.kind
         /\ marked[i].content.text = payload[i].content.text
         /\ BlocksIn(blocks, marked[i].content) =
              IF LastPass = "stripAnthropicCacheControl"
              THEN WithoutControl(blocks0, payload[i].content)
              ELSE WithoutPoints(blocks0, payload[i].content)
    /\ (cpc = "again" /\ passes[1].fn = LastPass) =>
         /\ marked = payload
         /\ blocks = blocks0

\* stripBedrockCacheControl ran twice on a payload that held markers of both
\* formats: the cache_control field is still there, no cachePoint block is
C36_Witness ==
  /\ cpc = "again"
  /\ passes[1].fn = "stripBedrockCacheControl"
  /\ LastPass = "stripBedrockCacheControl"
  /\ AnthropicMarkers(blocks, marked) # {}
  /\ BedrockMarkers(blocks, marked) = {}
  /\ Len(marked) >= 2

----------------------------------------------------------------------------
(***************************************************************************)
(* Part 4: the graph router.                                               *)
(*   A graph is declared by its edges over a pool of agents, constructed   *)
(*   (edges classified and validated), and then run: nodes execute, their  *)
(*   outputs merge into the state in completion order, and each completed  *)
(*   node routes either by a transfer (HANDOFF) or along its DIRECT edges. *)
(***************************************************************************)

\* the agents a graph declares
AgentIds == {"primary", "standalone", "agent_b", "agent_c", "sink"}

\* a node id no agent carries
UndeclaredId == "ghost"

\* the order in which simultaneously started nodes are listed
NodeOrder == <<"primary", "standalone", "agent_b", "agent_c", "sink">>

\* the endpoints of the declared edges: a single transition, a chain, a
\* fan-out, a fan-in, and an edge to a node that no agent carries
EdgeShapes ==
  { [from |-> {"primary"}, to |-> {"standalone"}],
    [from |-> {"primary"}, to |-> {"agent_b"}],
    [from |-> {"agent_b"}, to |-> {"agent_c"}],
    [from |-> {"primary"}, to |-> {"standalone", "agent_b", "agent_c"}],
    [from |-> {"standalone", "agent_b", "agent_c"}, to |-> {"sink"}],
    [from |-> {"primary"}, to |-> {UndeclaredId}] }

\* GraphEdge: endpoints, the optional edgeType tag and whether a condition
\* is given
GraphEdge(shape, edgeType, condition) ==
  [from |-> shape.from, to |-> shape.to, edgeType |-> edgeType,
   condition |-> condition]

EdgeChoices ==
  { GraphEdge(sh, t, c) : sh \in EdgeShapes, t \in {Absent, "handoff", "direct"},
                          c \in BOOLEAN }

\* mutant: the tag is looked at before the condition
classifyEdge_tagFirst(e) ==
  IF e.edgeType = "handoff" THEN "HANDOFF"
  ELSE IF e.edgeType = "direct" THEN "DIRECT"
  ELSE IF e.condition THEN "HANDOFF"
  ELSE IF Cardinality(e.to) = 1 THEN "HANDOFF"
  ELSE "DIRECT"

\* edge classification, in priority order
classifyEdge(e) ==
  IF e.condition \/ e.edgeType = "handoff" THEN "HANDOFF"
  ELSE IF e.edgeType = "direct" THEN "DIRECT"
  ELSE IF Cardinality(e.to) = 1 THEN "HANDOFF"
  ELSE "DIRECT"

\* a many-to-one edge lacking an explicit kind tag
ambiguousCardinality(e) ==
  Cardinality(e.from) > 1 /\ Cardinality(e.to) = 1 /\ e.edgeType = Absent

\* an edge endpoint that is no declared agent
danglingEndpoint(e) == ~((e.from \cup e.to) \subseteq AgentIds)

\* mutant: only the endpoints are validated
buildErrors_endpointsOnly(g) ==
  IF \E e \in g : danglingEndpoint(e) THEN {"DanglingEndpoint"} ELSE {}

\* the errors the construction of graph g can raise
buildErrors(g) ==
  (IF \E e \in g : ambiguousCardinality(e) THEN {"AmbiguousEdgeCardinality"} ELSE {})
    \cup (IF \E e \in g : danglingEndpoint(e) THEN {"DanglingEndpoint"} ELSE {})

\* the edges of a kind that leave node n
outbound(n, kind) == {e \in edges : n \in e.from /\ kinds[e] = kind}

\* the nodes a run starts with: those with an edge out and no edge in
entryNodes ==
  {n \in AgentIds : (\E e \in edges : n \in e.from) /\ ~(\E e \in edges : n \in e.to)}

\* the destinations node n can transfer to
handoffDestinations(n) == UNION {e.to : e \in outbound(n, "HANDOFF")}

\* mutant: a fan-in edge is followed as soon as one source completed
fanInReady_any(e, n) == TRUE

\* fan-in: every other contributing source of edge e has completed and left
\* along its DIRECT edges
fanInReady(e, n) == \A s \in e.from \ {n} : routed[s] = "direct"

\* the nodes that start when node n completes without a transfer
directDestinations(n) ==
  UNION {e.to : e \in {d \in outbound(n, "DIRECT") : fanInReady(d, n)}}

\* mutant: a transfer leaves the DIRECT edges of its source in force
routeTargets_both(n, choice) ==
  IF choice = "none" THEN directDestinations(n)
  ELSE {choice} \cup directDestinations(n)

\* the routing outcome of a completed node: the transfer destination
\* exclusively, or the DIRECT destinations
routeTargets(n, choice) ==
  IF choice = "none" THEN directDestinations(n) ELSE {choice}

\* the nodes of S in the order they are listed
inOrder(S) == SelectSeq(NodeOrder, LAMBDA n : n \in S)

\* what node n merges into the state when it completes: its output and, on
\* a transfer, the synthetic tool acknowledgment
outputOf(n, choice) ==
  IF choice = "none" THEN <<[by |-> n, type |-> "ai"]>>
  ELSE <<[by |-> n, type |-> "ai"], [by |-> n, type |-> "tool"]>>

\* mutant: the completion of a node ends every execution under way
activeAfter_cancelOthers(n, next) ==
  [m \in AgentIds |-> IF m \in next THEN 1 ELSE 0]

\* the executions under way after an execution of node n completed and the
\* nodes of next started: no other execution is touched
activeAfter(n, next) ==
  [m \in AgentIds |->
     (IF m = n THEN active[m] - 1 ELSE active[m]) + (IF m \in next THEN 1 ELSE 0)]

\* the graphs of up to n edge declarations
RECURSIVE GraphsUpTo(_)
GraphsUpTo(n) ==
  IF n = 0 THEN {{}}
  ELSE LET smaller == GraphsUpTo(n - 1)
       IN smaller \cup {g \cup {e} : g \in smaller, e \in EdgeChoices}

RouterInit ==
  /\ edges \in GraphsUpTo(MaxEdges) \ {{}}
  /\ graphState = "declared"
  /\ buildError = "none"
  /\ kinds = <<>>
  /\ active = [n \in AgentIds |-> 0]
  /\ routed = [n \in AgentIds |-> "none"]
  /\ runState = <<>>
  /\ seen = [n \in AgentIds |-> <<>>]
  /\ path = <<>>
  /\ events = 0
  /\ heap = EmptyHeap
  /\ left = <<>>
  /\ right = <<>>
  /\ pc = "idle"
  /\ heap0 = EmptyHeap
  /\ result = <<>>
  /\ messages = <<>>
  /\ FanIdle
  /\ CacheIdle
  /\ AggIdle
  /\ TokenIdle
  /\ HandoffIdle
  /\ ConverseIdle

\* graph construction: the edges are validated and classified; an invalid
\* graph is rejected with one of its errors
Construct ==
  /\ graphState = "declared"
  /\ IF buildErrors(edges) = {}
       THEN /\ graphState' = "built"
            /\ kinds' = [e \in edges |-> classifyEdge(e)]
            /\ UNCHANGED buildError
       ELSE /\ graphState' = "rejected"
            /\ buildError' \in buildErrors(edges)
            /\ UNCHANGED kinds
  /\ UNCHANGED <<edges, active, routed, runState, seen, path, events,
                 reducerVars, fanVars, cacheVars, aggVars, tokenVars, handoffVars, converseVars>>

\* the nodes of S start executing against the state st: each emits the event
\* of its run step
startNodes(S, st) ==
  /\ active' = [n \in AgentIds |-> IF n \in S THEN active[n] + 1 ELSE active[n]]
  /\ seen' = [n \in AgentIds |-> IF n \in S THEN st ELSE seen[n]]
  /\ path' = path \o inOrder(S)

\* a run of a constructed graph starts at its entry nodes
StartRun ==
  /\ graphState = "built"
  /\ graphState' = "running"
  /\ startNodes(entryNodes, runState)
  /\ events' = events + Cardinality(entryNodes)
  /\ UNCHANGED <<edges, buildError, kinds, routed, runState,
                 reducerVars, fanVars, cacheVars, aggVars, tokenVars, handoffVars, converseVars>>

\* node n completes: its output merges into the state and the routing
\* outcome starts the next nodes against the merged state; choice is the
\* destination it transferred to, or "none"
NodeComplete(n, choice) ==
  /\ graphState = "running"
  /\ active[n] > 0
  /\ choice \in {"none"} \cup handoffDestinations(n)
  /\ LET st == runState \o outputOf(n, choice)
         after == [m \in AgentIds |->
                     IF m = n THEN (IF choice = "none" THEN "direct" ELSE "handoff")
                     ELSE routed[m]]
         next == routeTargets(n, choice)
     IN /\ runState' = st
        /\ routed' = after
        /\ active' = activeAfter(n, next)
        /\ seen' = [m \in AgentIds |-> IF m \in next THEN st ELSE seen[m]]
        /\ path' = path \o inOrder(next)
        /\ events' = events + 1 + Cardinality(next)
  /\ UNCHANGED <<edges, graphState, buildError, kinds,
                 reducerVars, fanVars, cacheVars, aggVars, tokenVars, handoffVars, converseVars>>

RouterNext ==
  \/ Construct
  \/ StartRun
  \/ \E n \in AgentIds : \E choice \in AgentIds \cup {"none"} : NodeComplete(n, choice)

SpecRouter == RouterInit /\ [][RouterNext]_vars

----------------------------------------------------------------------------
(* Properties of the router *)

\* node n has both a HANDOFF and a DIRECT outbound edge
hasBothKinds(n) == outbound(n, "HANDOFF") # {} /\ outbound(n, "DIRECT") # {}

\* the nodes that start executing in a step
startedInStep == {m \in AgentIds : active'[m] > active[m]}

\* an execution of node n completes in a step
completesInStep(n) == graphState = "running" /\ active'[n] < active[n]

\* primary -> standalone is HANDOFF, primary -> agent_b is DIRECT, and the
\* only other edges continue from agent_b to agent_c
HybridGraph ==
  /\ graphState = "running"
  /\ \E e \in edges : e.from = {"primary"} /\ e.to = {"standalone"}
  /\ \E e \in edges : e.from = {"primary"} /\ e.to = {"agent_b"}
  /\ \A e \in edges :
       \/ e.from = {"primary"} /\ e.to = {"standalone"} /\ kinds[e] = "HANDOFF"
       \/ e.from = {"primary"} /\ e.to = {"agent_b"} /\ kinds[e] = "DIRECT"
       \/ e.from = {"agent_b"} /\ e.to = {"agent_c"}

\* C17: when a node with both a HANDOFF and a DIRECT outbound edge completes,
\* either it transferred and exactly one node starts, a destination of its
\* HANDOFF edges, or it did not and exactly the destinations of its DIRECT
\* edges whose sources have all completed start.  With primary -> standalone
\* (HANDOFF) and primary -> agent_b (DIRECT), after a transfer the path is
\* [primary, standalone] and agent_b never executes.
C17_ExclusiveRouting ==
  /\ [][\A n \in AgentIds :
          (completesInStep(n) /\ hasBothKinds(n)) =>
            IF routed'[n] = "handoff"
              THEN /\ Cardinality(startedInStep) = 1
                   /\ startedInStep \subseteq handoffDestinations(n)
              ELSE /\ startedInStep \subseteq UNION {e.to : e \in outbound(n, "DIRECT")}
                   /\ \A e \in outbound(n, "DIRECT") :
                        e.from = {n} => e.to \subseteq startedInStep]_vars
  /\ []((HybridGraph /\ routed["primary"] = "handoff") =>
          /\ path = <<"primary", "standalone">>
          /\ active["agent_b"] = 0
          /\ seen["agent_b"] = <<>>)

\* primary transferred to standalone, standalone ran to its end, and agent_b
\* never started
C17_Witness ==
  /\ HybridGraph
  /\ routed["primary"] = "handoff"
  /\ routed["standalone"] = "direct"
  /\ path = <<"primary", "standalone">>
  /\ \A n \in AgentIds : active[n] = 0

\* the three parallel destinations of the fan-out
FanBranches == {"standalone", "agent_b", "agent_c"}

\* primary fans out over DIRECT edges to the three branches, which fan in
\* over a DIRECT edge to sink
FanGraph ==
  /\ graphState = "running"
  /\ \E e \in edges : e.from = {"primary"} /\ e.to = FanBranches
  /\ \E e \in edges : e.from = FanBranches /\ e.to = {"sink"}
  /\ \A e \in edges :
       /\ kinds[e] = "DIRECT"
       /\ \/ e.from = {"primary"} /\ e.to = FanBranches
          \/ e.from = FanBranches /\ e.to = {"sink"}

\* how many times node n started executing
executions(n) == Len(SelectSeq(path, LAMBDA m : m = n))

\* no execution is under way
Quiescent == \A n \in AgentIds : active[n] = 0

\* C18: in the graph 1 source -> 3 branches -> 1 sink over DIRECT edges, the
\* sink never executes twice; when it has started, the three branches have
\* completed and the state it started from holds an output of each; and when
\* the run has come to rest, whatever the order the branches completed in,
\* the sink has executed once.
C18_FanInOnce ==
  FanGraph =>
    /\ executions("sink") <= 1
    /\ executions("sink") = 1 =>
         /\ \A b \in FanBranches : routed[b] = "direct"
         /\ \A b \in FanBranches :
              \E i \in 1..Len(seen["sink"]) : seen["sink"][i].by = b
    /\ Quiescent => executions("sink") = 1

\* the run came to rest after the branches completed in an order other than
\* the one they are listed in, and the sink executed once
C18_Witness ==
  /\ FanGraph
  /\ Quiescent
  /\ executions("sink") = 1
  /\ Len(runState) = 5
  /\ runState[2].by = "agent_c"
  /\ runState[4].by = "standalone"

\* the graph was constructed and its edges classified
Classified == graphState \in {"built", "running"}

\* C19: in a constructed graph, an edge with a condition or the handoff tag
\* is HANDOFF whatever its number of destinations; without them, the direct
\* tag makes it DIRECT; without condition and tag, one destination makes it
\* HANDOFF and several make it DIRECT.
C19_ClassificationPriority ==
  Classified =>
    \A e \in edges :
      /\ (e.condition \/ e.edgeType = "handoff") => kinds[e] = "HANDOFF"
      /\ (~e.condition /\ e.edgeType = "direct") => kinds[e] = "DIRECT"
      /\ (~e.condition /\ e.edgeType = Absent /\ Cardinality(e.to) = 1) =>
           kinds[e] = "HANDOFF"
      /\ (~e.condition /\ e.edgeType = Absent /\ Cardinality(e.to) > 1) =>
           kinds[e] = "DIRECT"

\* a constructed graph holds a fan-out edge that has a condition and the
\* direct tag, classified HANDOFF, and an untagged fan-out edge, classified
\* DIRECT
C19_Witness ==
  /\ Classified
  /\ \E e \in edges :
       /\ e.condition /\ e.edgeType = "direct" /\ Cardinality(e.to) > 1
       /\ kinds[e] = "HANDOFF"
  /\ \E e \in edges :
       /\ ~e.condition /\ e.edgeType = Absent /\ Cardinality(e.to) > 1
       /\ kinds[e] = "DIRECT"

\* the graph holds an edge that construction has to reject
Rejectable ==
  \E e \in edges :
    \/ Cardinality(e.from) > 1 /\ Cardinality(e.to) = 1 /\ e.edgeType = Absent
    \/ UndeclaredId \in e.from \cup e.to

\* nothing of a run has happened: no node started, no output merged, no
\* event emitted
NothingRan ==
  /\ path = <<>>
  /\ runState = <<>>
  /\ events = 0
  /\ \A n \in AgentIds : active[n] = 0 /\ routed[n] = "none"

\* C20: a graph with an untagged many-to-one edge or with an edge naming an
\* undeclared node is never constructed: while it is declared or rejected no
\* node has executed and no event was emitted, construction rejects it with
\* the error of one of its faulty edges, and a rejected graph takes no
\* further step.
C20_RejectedBeforeExecution ==
  /\ [](Rejectable =>
          /\ graphState \in {"declared", "rejected"}
          /\ NothingRan
          /\ graphState = "rejected" =>
               /\ buildError \in {"AmbiguousEdgeCardinality", "DanglingEndpoint"}
               /\ buildError = "AmbiguousEdgeCardinality" =>
                    \E e \in edges : ambiguousCardinality(e)
               /\ buildError = "DanglingEndpoint" =>
                    \E e \in edges : danglingEndpoint(e))
  /\ [][graphState = "rejected" => UNCHANGED routerVars]_vars

\* construction rejected a graph for its untagged many-to-one edge, although
\* its other edge is sound
C20_Witness ==
  /\ graphState = "rejected"
  /\ buildError = "AmbiguousEdgeCardinality"
  /\ \E e \in edges : ~ambiguousCardinality(e) /\ ~danglingEndpoint(e)
  /\ \A e \in edges : ~danglingEndpoint(e)
  /\ NothingRan

\* how many outputs of node n the state holds
outputs(n) == Len(SelectSeq(runState, LAMBDA o : o.by = n /\ o.type = "ai"))

\* position of the tool acknowledgment of node n in the state (0 if none)
ackAt(n) ==
  IF \E i \in 1..Len(runState) : runState[i].by = n /\ runState[i].type = "tool"
    THEN CHOOSE i \in 1..Len(runState) : runState[i].by = n /\ runState[i].type = "tool"
    ELSE 0

\* C21: in the step in which a node transfers, no execution of another node
\* that is under way is ended or restarted and the state such a node started
\* from is not changed; only the node transferred to starts.  When the run
\* has come to rest, every execution that started has completed and its
\* output is in the state.
C21_TransferCancelsOnlyOwnDirect ==
  /\ [][\A n \in AgentIds :
          (completesInStep(n) /\ routed'[n] = "handoff") =>
            \A m \in AgentIds \ {n} :
              /\ active'[m] >= active[m]
              /\ (active[m] > 0 /\ m \notin startedInStep) =>
                   (active'[m] = active[m] /\ seen'[m] = seen[m])]_vars
  /\ []((graphState = "running" /\ Quiescent) =>
          \A m \in AgentIds : outputs(m) = executions(m))

\* a node with both edge kinds transferred while another node was executing;
\* that node completed afterwards and its output was merged
C21_Witness ==
  /\ graphState = "running"
  /\ Quiescent
  /\ \E n \in AgentIds :
       /\ hasBothKinds(n)
       /\ routed[n] = "handoff"
       /\ \E m \in AgentIds \ {n} :
            \E i \in 1..Len(runState) :
              /\ runState[i].by = m
              /\ i > ackAt(n)
              /\ \A k \in 1..Len(seen[m]) : seen[m][k].by # n
              /\ m \notin handoffDestinations(n)

----------------------------------------------------------------------------
(***************************************************************************)
(* Part 5: the event stream.                                               *)
(*   Nodes dispatch their events through safeDispatchCustomEvent           *)
(*   (src/src/utils/events.ts); the handlers of createHandlers             *)
(*   (src/src/utils/handlers.ts) pass each delivered event to the content  *)
(*   aggregator.  Text is a sequence of characters, so that concatenation  *)
(*   is concatenation and not identity.                                    *)
(***************************************************************************)

\* the run-step ids of two concurrently executing branches
StepIds == {"step_1", "step_2"}

\* the content indexes a run-step writes to
ContentIndexes == {0, 1}

\* the types of a run-step
StepTypes == {"text", "tool_call"}

\* (run-step id, content index) pairs
PairKeys == StepIds \X ContentIndexes

\* no accumulator exists for the pair
NoAcc == [type |-> "none", buffer |-> <<>>]

\* what a delta carries: characters of text, or a raw fragment of tool-call
\* arguments
TextDeltas == {<<"a">>, <<"b", "c">>}
ArgsDeltas == {<<"{">>, <<"}">>}

deltasOf(type) == IF type = "text" THEN TextDeltas ELSE ArgsDeltas

\* how dispatchCustomEvent ends: the event reaches the handlers, or it
\* throws the error of the event stream handler that lost the run id, or
\* it throws another error
DispatchOutcomes == {"delivered", "runIdNotFound", "otherError"}

\* mutant: the error of the lost run id is thrown on to the caller
safeDispatchCustomEvent_rethrow(outcome) ==
  IF outcome = "delivered" THEN [result |-> "returned", logged |-> FALSE]
  ELSE IF outcome = "runIdNotFound" THEN [result |-> "threw", logged |-> FALSE]
  ELSE [result |-> "returned", logged |-> TRUE]

\* safeDispatchCustomEvent: how the call ends for the node that dispatched
\* and whether console.error was called
safeDispatchCustomEvent(outcome) ==
  IF outcome = "delivered" THEN [result |-> "returned", logged |-> FALSE]
  ELSE IF outcome = "runIdNotFound" THEN [result |-> "returned", logged |-> FALSE]
  ELSE [result |-> "returned", logged |-> TRUE]

\* the characters of a sequence of deltas, in order
RECURSIVE concat(_)
concat(ds) == IF ds = <<>> THEN <<>> ELSE Head(ds) \o concat(Tail(ds))

\* structural parse of buffered tool-call arguments: an opening brace, a
\* closing brace and no brace between them
parses(text) ==
  /\ Len(text) >= 2
  /\ text[1] = "{"
  /\ text[Len(text)] = "}"
  /\ \A k \in 2..(Len(text) - 1) : text[k] \notin {"{", "}"}

\* mutant: one accumulator per content index
accumulatorKey_indexOnly(stepId, index) == <<"step_1", index>>

\* the accumulator a delta of run-step stepId for content index `index`
\* goes to
accumulatorKey(stepId, index) == <<stepId, index>>

\* mutant: the accumulators exist from the start of the run-step on
createdOnStep_eager(type) == [type |-> type, buffer |-> <<>>]

\* what the creation of a run-step leaves in each of its accumulators:
\* nothing, accumulators are created on the first delta
createdOnStep(type) == NoAcc

\* a delta is applied to the accumulator of its pair, created if need be
applyDelta(accs, stepId, index, type, chunk) ==
  LET key == accumulatorKey(stepId, index)
  IN [k \in PairKeys |->
        IF k = key
          THEN [type |-> type, buffer |-> Append(accs[k].buffer, chunk)]
          ELSE accs[k]]

\* mutant: a failed parse of the arguments ends the run
finalizePart_fatal(key, acc) ==
  IF acc.type = "text"
    THEN [part |-> [step |-> key[1], index |-> key[2], type |-> "text",
                    text |-> concat(acc.buffer), error |-> "none"],
          fatal |-> FALSE]
    ELSE [part |-> [step |-> key[1], index |-> key[2], type |-> "tool_call",
                    text |-> concat(acc.buffer), error |-> "none"],
          fatal |-> ~parses(concat(acc.buffer))]

\* the content part an accumulator is finalized to: text is the
\* concatenation of its deltas; tool-call arguments are parsed now, and a
\* failed parse is attached to the part
finalizePart(key, acc) ==
  IF acc.type = "text"
    THEN [part |-> [step |-> key[1], index |-> key[2], type |-> "text",
                    text |-> concat(acc.buffer), error |-> "none"],
          fatal |-> FALSE]
    ELSE [part |-> [step |-> key[1], index |-> key[2], type |-> "tool_call",
                    text |-> concat(acc.buffer),
                    error |-> IF parses(concat(acc.buffer)) THEN "none"
                              ELSE "MalformedToolArguments"],
          fatal |-> FALSE]

\* the accumulators of run-step stepId, by content index
RECURSIVE finalizeStep(_, _, _)
finalizeStep(accs, stepId, index) ==
  IF index \notin ContentIndexes THEN <<>>
  ELSE IF accs[<<stepId, index>>] = NoAcc THEN finalizeStep(accs, stepId, index + 1)
  ELSE <<finalizePart(<<stepId, index>>, accs[<<stepId, index>>])>>
         \o finalizeStep(accs, stepId, index + 1)

\* the run-step is one the aggregator knows: created and not yet finalized
knownStep(stepId) == stepMap[stepId] \in StepTypes

\* the record of a dispatch
dispatched(event, stepId, index, outcome) ==
  [event |-> event, step |-> stepId, index |-> index, outcome |-> outcome,
   known |-> knownStep(stepId),
   result |-> safeDispatchCustomEvent(outcome).result,
   logged |-> safeDispatchCustomEvent(outcome).logged]

\* the run after a dispatch: an error that reaches the node ends it
statusAfter(outcome, fatal) ==
  IF safeDispatchCustomEvent(outcome).result = "threw" \/ fatal THEN "failed"
  ELSE aggStatus

AggInit ==
  /\ stepMap = [st \in StepIds |-> "none"]
  /\ accumulators = [k \in PairKeys |-> NoAcc]
  /\ contentParts = <<>>
  /\ delivered = <<>>
  /\ aggStatus = "running"
  /\ lastEvent = dispatched("none", "step_1", 0, "delivered")
  /\ nEvents = 0
  /\ heap = EmptyHeap
  /\ left = <<>>
  /\ right = <<>>
  /\ pc = "idle"
  /\ heap0 = EmptyHeap
  /\ result = <<>>
  /\ messages = <<>>
  /\ FanIdle
  /\ CacheIdle
  /\ RouterIdle
  /\ TokenIdle
  /\ HandoffIdle
  /\ ConverseIdle

\* ON_RUN_STEP: a node announces a run-step of a type; delivered, the
\* aggregator registers it
OnRunStep(stepId, type, outcome) ==
  /\ aggStatus = "running"
  /\ nEvents < MaxEvents
  /\ stepMap[stepId] = "none"
  /\ IF outcome = "delivered"
       THEN /\ stepMap' = [st \in StepIds |-> IF st = stepId THEN type ELSE stepMap[st]]
            /\ accumulators' = [k \in PairKeys |->
                                  IF k[1] = stepId THEN createdOnStep(type)
                                  ELSE accumulators[k]]
       ELSE UNCHANGED <<stepMap, accumulators>>
  /\ lastEvent' = dispatched("run_step", stepId, 0, outcome)
  /\ aggStatus' = statusAfter(outcome, FALSE)
  /\ nEvents' = nEvents + 1
  /\ UNCHANGED <<contentParts, delivered, reducerVars, fanVars, cacheVars, routerVars, tokenVars, handoffVars, converseVars>>

\* ON_MESSAGE_DELTA / ON_RUN_STEP_DELTA: a node emits a delta for a content
\* index of a run-step; delivered for a known run-step it is applied, else
\* it is dropped
OnDelta(stepId, index, chunk, outcome) ==
  /\ aggStatus = "running"
  /\ nEvents < MaxEvents
  /\ IF knownStep(stepId) THEN chunk \in deltasOf(stepMap[stepId])
     ELSE chunk \in TextDeltas
  /\ IF outcome = "delivered" /\ knownStep(stepId)
       THEN /\ accumulators' =
                 applyDelta(accumulators, stepId, index, stepMap[stepId], chunk)
            /\ delivered' = Append(delivered,
                                    [step |-> stepId, index |-> index, chunk |-> chunk])
       ELSE UNCHANGED <<accumulators, delivered>>
  /\ lastEvent' = dispatched("delta", stepId, index, outcome)
  /\ aggStatus' = statusAfter(outcome, FALSE)
  /\ nEvents' = nEvents + 1
  /\ UNCHANGED <<stepMap, contentParts, reducerVars, fanVars, cacheVars, routerVars, tokenVars, handoffVars, converseVars>>

\* ON_RUN_STEP_COMPLETED: delivered for a known run-step, its accumulators
\* are finalized and their parts become visible; the run-step is then
\* unknown to the aggregator
OnRunStepCompleted(stepId, outcome) ==
  /\ aggStatus = "running"
  /\ nEvents < MaxEvents
  /\ LET fin == IF outcome = "delivered" /\ knownStep(stepId)
                  THEN finalizeStep(accumulators, stepId, 0) ELSE <<>>
         fatal == \E k \in 1..Len(fin) : fin[k].fatal
         kept == SelectSeq(fin, LAMBDA f : ~f.fatal)
     IN /\ contentParts' = contentParts \o [k \in 1..Len(kept) |-> kept[k].part]
        /\ aggStatus' = statusAfter(outcome, fatal)
  /\ IF outcome = "delivered" /\ knownStep(stepId)
       THEN /\ stepMap' = [st \in StepIds |-> IF st = stepId THEN "done" ELSE stepMap[st]]
            /\ accumulators' = [k \in PairKeys |->
                                  IF k[1] = stepId THEN NoAcc ELSE accumulators[k]]
       ELSE UNCHANGED <<stepMap, accumulators>>
  /\ lastEvent' = dispatched("completed", stepId, 0, outcome)
  /\ nEvents' = nEvents + 1
  /\ UNCHANGED <<delivered, reducerVars, fanVars, cacheVars, routerVars, tokenVars, handoffVars, converseVars>>

AggNext ==
  \/ \E stepId \in StepIds, type \in StepTypes, outcome \in DispatchOutcomes :
       OnRunStep(stepId, type, outcome)
  \/ \E stepId \in StepIds, index \in ContentIndexes,
        chunk \in TextDeltas \cup ArgsDeltas, outcome \in DispatchOutcomes :
       OnDelta(stepId, index, chunk, outcome)
  \/ \E stepId \in StepIds, outcome \in DispatchOutcomes :
       OnRunStepCompleted(stepId, outcome)

SpecAggregator == AggInit /\ [][AggNext]_vars

----------------------------------------------------------------------------
(***************************************************************************)
(* Part 6: the shared token encoder (src/src/utils/handlers.ts:171-237).   *)
(*   Promises are numbered objects.  An encoder load is the promise of the *)
(*   async function that fetches the encoder data; it starts when the      *)
(*   promise is created and settles later.  A counter promise awaits one   *)
(*   encoder load and settles as that load does.                           *)
(***************************************************************************)

\* mutant: every call starts a load
getSharedEncoder_noMemo(ep, lds, e) ==
  [encoderPromise |-> Len(lds) + 1,
   loads |-> Append(lds, [epoch |-> e, state |-> "pending"]),
   value |-> Len(lds) + 1]

\* getSharedEncoder: the encoder load it returns, starting one (a fetch)
\* when encoderPromise is undefined
getSharedEncoder(ep, lds, e) ==
  IF ep # 0 THEN [encoderPromise |-> ep, loads |-> lds, value |-> ep]
  ELSE [encoderPromise |-> Len(lds) + 1,
        loads |-> Append(lds, [epoch |-> e, state |-> "pending"]),
        value |-> Len(lds) + 1]

\* mutant: reset() leaves the cached counter
reset_encoderOnly(ep, tcp) == [encoderPromise |-> 0, tokenCounterPromise |-> tcp]

\* TokenEncoderManager.reset
reset(ep, tcp) == [encoderPromise |-> 0, tokenCounterPromise |-> 0]

\* TokenEncoderManager.isInitialized
isInitialized == encoderPromise # 0

\* how a counter promise stands: as the encoder load it awaits
counterState(c) == loads[counterPromises[c].encoder].state

\* getTokenCountForMessage with the counter of promise c, for a message whose
\* content is the string text: 3 tokens per message and the tokens of the
\* text, one per character with the data every load fetches
countTokens(c, text) == 3 + Len(text)

TokenInit ==
  /\ encoderPromise = 0
  /\ tokenCounterPromise = 0
  /\ loads = <<>>
  /\ counterPromises = <<>>
  /\ tokenCalls = <<>>
  /\ epoch = 0
  /\ heap = EmptyHeap
  /\ left = <<>>
  /\ right = <<>>
  /\ pc = "idle"
  /\ heap0 = EmptyHeap
  /\ result = <<>>
  /\ messages = <<>>
  /\ FanIdle
  /\ CacheIdle
  /\ RouterIdle
  /\ AggIdle
  /\ HandoffIdle
  /\ ConverseIdle

\* createTokenCounter(): returns the cached counter promise, or creates one,
\* whose body calls getSharedEncoder at once
CreateTokenCounter ==
  /\ Len(tokenCalls) < MaxCalls
  /\ IF tokenCounterPromise # 0
       THEN /\ tokenCalls' = Append(tokenCalls,
                 [op |-> "createTokenCounter", epoch |-> epoch,
                  promise |-> tokenCounterPromise])
            /\ UNCHANGED <<encoderPromise, tokenCounterPromise, loads, counterPromises>>
       ELSE LET enc == getSharedEncoder(encoderPromise, loads, epoch)
                c == Len(counterPromises) + 1
            IN /\ encoderPromise' = enc.encoderPromise
               /\ loads' = enc.loads
               /\ counterPromises' =
                    Append(counterPromises, [epoch |-> epoch, encoder |-> enc.value])
               /\ tokenCounterPromise' = c
               /\ tokenCalls' = Append(tokenCalls,
                    [op |-> "createTokenCounter", epoch |-> epoch, promise |-> c])
  /\ UNCHANGED <<epoch, reducerVars, fanVars, cacheVars, routerVars, aggVars, handoffVars, converseVars>>

\* TokenEncoderManager.initialize(): awaits getSharedEncoder()
Initialize ==
  /\ Len(tokenCalls) < MaxCalls
  /\ LET enc == getSharedEncoder(encoderPromise, loads, epoch)
     IN /\ encoderPromise' = enc.encoderPromise
        /\ loads' = enc.loads
        /\ tokenCalls' = Append(tokenCalls,
             [op |-> "initialize", epoch |-> epoch, promise |-> enc.value])
  /\ UNCHANGED <<tokenCounterPromise, counterPromises, epoch,
                 reducerVars, fanVars, cacheVars, routerVars, aggVars, handoffVars, converseVars>>

\* TokenEncoderManager.reset()
Reset ==
  /\ Len(tokenCalls) < MaxCalls
  /\ LET r == reset(encoderPromise, tokenCounterPromise)
     IN /\ encoderPromise' = r.encoderPromise
        /\ tokenCounterPromise' = r.tokenCounterPromise
  /\ epoch' = epoch + 1
  /\ tokenCalls' = Append(tokenCalls, [op |-> "reset", epoch |-> epoch, promise |-> 0])
  /\ UNCHANGED <<loads, counterPromises,
                 reducerVars, fanVars, cacheVars, routerVars, aggVars, handoffVars, converseVars>>

\* a pending encoder load settles: the fetch and the parse of its body
\* succeed, or one of them fails
LoadSettles(l, state) ==
  /\ l \in 1..Len(loads)
  /\ loads[l].state = "pending"
  /\ loads' = [k \in 1..Len(loads) |->
                 IF k = l THEN [epoch |-> loads[k].epoch, state |-> state]
                 ELSE loads[k]]
  /\ UNCHANGED <<encoderPromise, tokenCounterPromise, counterPromises, tokenCalls,
                 epoch, reducerVars, fanVars, cacheVars, routerVars, aggVars, handoffVars, converseVars>>

TokenNext ==
  \/ CreateTokenCounter
  \/ Initialize
  \/ Reset
  \/ \E l \in 1..MaxCalls : \E state \in {"fulfilled", "rejected"} : LoadSettles(l, state)

SpecTokens == TokenInit /\ [][TokenNext]_vars

----------------------------------------------------------------------------
(* More properties of the reducer and the state store *)

\* the entries of incoming merged one at a time, each against the result of
\* the call before it; nothing is merged after a call that threw
RECURSIVE mergeOneAtATime(_, _, _)
mergeOneAtATime(h, current, incoming) ==
  IF incoming = <<>> THEN [heap |-> h, threw |-> FALSE, value |-> current]
  ELSE LET out == messagesStateReducer(h, current, <<Head(incoming)>>)
       IN IF out.threw THEN [heap |-> out.heap, threw |-> TRUE, value |-> <<>>]
          ELSE mergeOneAtATime(out.heap, out.value, Tail(incoming))

\* the update holds no remove-all sentinel
NoSentinel(h, incoming) == \A i \in 1..Len(incoming) : ~IsRemoveAll(h[incoming[i]])

\* C28: an update without remove-all sentinel merged in one call gives what
\* merging its entries one at a time gives: both throw, or both return the
\* same list of the same messages.
C28_BatchEqualsOneAtATime ==
  (pc = "pending" /\ NoSentinel(heap, right)) =>
    LET whole == messagesStateReducer(heap, messages, right)
        single == mergeOneAtATime(heap, messages, right)
    IN /\ whole.threw = single.threw
       /\ ~whole.threw => Deref(whole.heap, whole.value) = Deref(single.heap, single.value)

\* the positions of msgs that hold a message with id x
PositionsOf(h, msgs, x) == {i \in 1..Len(msgs) : h[msgs[i]].id = x}

\* the last message with id x in the update of branch b
LastWith(h, b, x) ==
  LET at == PositionsOf(h, delta[b], x)
  IN delta[b][CHOOSE i \in at : \A j \in at : j <= i]

\* every branch has completed and the update of each holds a normal message
\* with id x
C29_Pre(x) ==
  /\ fpc = "running"
  /\ Range(done) = Branches
  /\ \A b \in Branches :
       \E i \in 1..Len(delta[b]) :
         heap[delta[b][i]].id = x /\ heap[delta[b][i]].type # "remove"

\* C29: the updates of two parallel branches both hold a normal message with
\* id x: after the fan-in the canonical list has exactly one entry with id x,
\* it is the message of the branch that completed last, and it is at the
\* position the entry with id x had after the first of the two merges.
C29_LastWriterInPlace ==
  [][\A x \in ExplicitIds :
       (C29_Pre(x) /\ fpc' = "merged") =>
         LET first == messagesStateReducer(heap, messages, delta[done[1]])
             at == PositionsOf(heap', messages', x)
         IN /\ Cardinality(at) = 1
            /\ \A i \in at : messages'[i] = LastWith(heap, done[2], x)
            /\ at = PositionsOf(first.heap, first.value, x)]_vars

\* the update in flight came from a transfer capability
transferPending == pc = "pending" /\ command # NoCommand

\* the list holds no tombstone
NoTombstone(h, msgs) == \A i \in 1..Len(msgs) : h[msgs[i]].type # "remove"

\* invoking the transfer capability of agent a on a state whose list is M
\* returns the update M followed by one new tool acknowledgment, and a
\* directive whose goto is a alone
TransferReturns ==
  [][\A a \in HandoffAgents :
       Transfer(a) =>
         /\ Len(right') = Len(messages) + 1
         /\ SubSeq(right', 1, Len(messages)) = messages
         /\ right'[Len(right')] \notin DOMAIN heap
         /\ heap'[right'[Len(right')]] = toolMessage
         /\ command'.goto = a]_vars

\* C30 (amended): invoking the transfer capability of agent a on a state whose
\* list M holds no tombstone returns the update M followed by one new tool
\* acknowledgment and a directive whose goto is a alone; when the store has
\* merged that update the canonical list is M in its order followed by that
\* one acknowledgment, and no message is in it twice.
C30_TransferAppendsOneAckNoTombstone ==
  /\ TransferReturns
  /\ [][(transferPending /\ NoTombstone(heap, messages) /\ pc' # "pending") =>
          /\ pc' = "returned"
          /\ Len(messages') = Len(messages) + 1
          /\ \A i \in 1..Len(messages) : heap'[messages'[i]] = heap[messages[i]]
          /\ heap'[messages'[Len(messages')]].type = "tool"
          /\ \A i, j \in 1..Len(messages') : i < j => messages'[i] # messages'[j]]_vars

\* a transfer was merged into a list of two messages
C30_Witness ==
  /\ pc = "returned"
  /\ command.goto = "hotel_assistant"
  /\ Len(messages) = MaxLen + 1
  /\ heap[messages[1]].type = "human"
  /\ heap[messages[2]].type = "human"
  /\ heap[messages[1]].id # heap[messages[2]].id
  /\ heap[messages[Len(messages)]].type = "tool"

\* C30 as stated, for every list M: invoking the transfer capability of agent
\* a returns the update M followed by one new tool acknowledgment and a
\* directive whose goto is a alone; when the store has merged that update the
\* canonical list is M in its order followed by that one acknowledgment, and
\* no message is in it twice.
C30_TransferAppendsOneAck ==
  /\ TransferReturns
  /\ [][(transferPending /\ pc' # "pending") =>
          /\ pc' = "returned"
          /\ Len(messages') = Len(messages) + 1
          /\ \A i \in 1..Len(messages) : heap'[messages'[i]] = heap[messages[i]]
          /\ heap'[messages'[Len(messages')]].type = "tool"
          /\ \A i, j \in 1..Len(messages') : i < j => messages'[i] # messages'[j]]_vars

\* C31: while the branches of a fan-out run, the list every branch was given
\* is the snapshot taken at the fan-out point and holds no message of a
\* sibling's update; the snapshot, the canonical list and the message objects
\* of the snapshot do not change before the fan-in merge.
C31_BranchesSeeOneSnapshot ==
  /\ [](fpc = "running" =>
          /\ messages = snapshot
          /\ \A b \in Range(done) :
               /\ observed[b] = snapshot
               /\ \A c \in Branches \ {b} : Range(observed[b]) \cap Range(delta[c]) = {})
  /\ [][(fpc = "running" /\ fpc' = "running") =>
          /\ snapshot' = snapshot
          /\ messages' = messages
          /\ \A r \in Range(snapshot) : heap'[r] = heap[r]]_vars

\* both branches have completed on a non-empty snapshot, each with an update,
\* and the fan-in has not merged yet
C31_Witness ==
  /\ fpc = "running"
  /\ done = <<2, 1>>
  /\ snapshot # <<>>
  /\ delta[1] # <<>>
  /\ delta[2] # <<>>
  /\ observed[1] = snapshot
  /\ observed[2] = snapshot

\* the positions of the update in flight that hold a remove-all sentinel
SentinelsPending == {i \in 1..Len(right) : IsRemoveAll(heap[right[i]])}

\* the entries of the update in flight that follow its last sentinel
AfterLastSentinel ==
  {heap[right[j]] : j \in {k \in 1..Len(right) : \A i \in SentinelsPending : i < k}}

\* C38 as stated: after a successful merge the canonical list holds no
\* tombstone and no remove-all sentinel.
C38_NoTombstoneStored ==
  pc = "returned" =>
    \A i \in 1..Len(messages) : heap[messages[i]].type # "remove"

\* C38 (amended): after a successful merge the canonical list holds no
\* remove-all sentinel, and it holds a tombstone only if the list held it
\* before the merge or the update held it after its last remove-all sentinel;
\* a merge without sentinel into a list without tombstones returns a list
\* without tombstones.
C38_TombstonesOnlyAfterSentinel ==
  [][(pc = "pending" /\ pc' = "returned") =>
       /\ \A i \in 1..Len(messages') : ~IsRemoveAll(heap'[messages'[i]])
       /\ \A i \in 1..Len(messages') :
            heap'[messages'[i]].type = "remove" =>
              \/ \E j \in 1..Len(messages) : heap[messages[j]] = heap'[messages'[i]]
              \/ /\ SentinelsPending # {}
                 /\ heap'[messages'[i]] \in AfterLastSentinel
       /\ (SentinelsPending = {} /\ NoTombstone(heap, messages)) =>
            NoTombstone(heap', messages')]_vars

\* the canonical list holds a message and, after it, a tombstone that a
\* remove-all update left there
C38_Witness ==
  /\ pc = "returned"
  /\ Len(messages) = 2
  /\ heap[messages[1]].type = "human"
  /\ heap[messages[2]].type = "remove"
  /\ heap[messages[2]].id # REMOVE_ALL_MESSAGES

----------------------------------------------------------------------------
(* Properties of the event stream *)

\* the deltas delivered for a pair, in emission order
RECURSIVE deltasFor(_, _)
deltasFor(log, key) ==
  IF log = <<>> THEN <<>>
  ELSE IF <<Head(log).step, Head(log).index>> = key
    THEN <<Head(log).chunk>> \o deltasFor(Tail(log), key)
    ELSE deltasFor(Tail(log), key)

\* the visible parts of a pair
partsOf(key) ==
  {p \in 1..Len(contentParts) :
     contentParts[p].step = key[1] /\ contentParts[p].index = key[2]}

\* C22: whatever the interleaving of the deltas of the two run-steps, every
\* (run-step id, content index) pair has its own accumulator, which holds
\* the deltas delivered for that pair in their order and nothing else, and
\* the part it is finalized to is the concatenation of those deltas.
C22_IndependentAccumulators ==
  aggStatus # "none" =>
    /\ \A key \in PairKeys :
         knownStep(key[1]) => accumulators[key].buffer = deltasFor(delivered, key)
    /\ \A key \in PairKeys :
         /\ Cardinality(partsOf(key)) <= 1
         /\ \A p \in partsOf(key) :
              contentParts[p].text = concat(deltasFor(delivered, key))

\* deltas of the two run-steps for the same content index arrived
\* interleaved; the accumulator of the first run-step holds its two deltas
\* in arrival order while the accumulator of the second holds its one delta
C22_Witness ==
  /\ aggStatus = "running"
  /\ Len(delivered) = 3
  /\ delivered[1].step = "step_1" /\ delivered[1].index = 0
  /\ delivered[2].step = "step_2" /\ delivered[2].index = 0
  /\ delivered[3].step = "step_1" /\ delivered[3].index = 0
  /\ delivered[1].chunk # delivered[3].chunk
  /\ accumulators[<<"step_1", 0>>].buffer = <<delivered[1].chunk, delivered[3].chunk>>
  /\ accumulators[<<"step_2", 0>>].buffer = <<delivered[2].chunk>>

\* the event dispatched in a step references a run id the event stream
\* handler lost, or a run-step the aggregator does not know
unknownScope(e) ==
  \/ e.outcome = "runIdNotFound"
  \/ e.outcome = "delivered" /\ e.event \in {"delta", "completed"} /\ ~e.known

\* C23: when a dispatched event references a run id or a run-step the
\* receiver does not know, the dispatch returns to the node without an
\* error and without a log entry, the run stays running, and no
\* accumulator, no registered run-step and no visible part changes.
C23_UnknownScopeDropped ==
  [][(nEvents' = nEvents + 1 /\ unknownScope(lastEvent')) =>
       /\ lastEvent'.result = "returned"
       /\ ~lastEvent'.logged
       /\ aggStatus' = "running"
       /\ accumulators' = accumulators
       /\ stepMap' = stepMap
       /\ contentParts' = contentParts
       /\ delivered' = delivered]_vars

\* the dispatch of a delta for a run-step that holds content threw the
\* error of the lost run id, while another run-step held content too
C23_Witness ==
  /\ lastEvent.event = "delta"
  /\ lastEvent.outcome = "runIdNotFound"
  /\ lastEvent.known
  /\ accumulators[<<lastEvent.step, lastEvent.index>>] # NoAcc
  /\ \E key \in PairKeys : key[1] # lastEvent.step /\ accumulators[key] # NoAcc
  /\ aggStatus = "running"

\* a run-step is finalized in the step
finalizesInStep ==
  /\ nEvents' = nEvents + 1
  /\ lastEvent'.event = "completed"
  /\ lastEvent'.outcome = "delivered"
  /\ lastEvent'.known

\* the accumulators of a run-step that hold content
liveAccumulators(stepId) ==
  {key \in PairKeys : key[1] = stepId /\ accumulators[key] # NoAcc}

\* C24: an accumulator of tool-call arguments holds the raw fragments as
\* they arrived, whether or not they parse so far, and the run goes on.
\* When a run-step is finalized, each of its accumulators becomes a visible
\* part, a tool-call part carrying MalformedToolArguments exactly when its
\* fragments do not parse; the run stays running, the parts that were
\* visible stay as they were and the accumulators of other run-steps do not
\* change.
C24_MalformedArgumentsNotFatal ==
  /\ [](aggStatus # "none" =>
          /\ aggStatus = "running"
          /\ \A key \in PairKeys :
               accumulators[key].type = "tool_call" =>
                 accumulators[key].buffer = deltasFor(delivered, key)
          /\ \A p \in 1..Len(contentParts) :
               contentParts[p].error =
                 (IF contentParts[p].type = "tool_call" /\ ~parses(contentParts[p].text)
                    THEN "MalformedToolArguments" ELSE "none"))
  /\ [][finalizesInStep =>
          /\ Len(contentParts') =
               Len(contentParts) + Cardinality(liveAccumulators(lastEvent'.step))
          /\ SubSeq(contentParts', 1, Len(contentParts)) = contentParts
          /\ \A key \in PairKeys :
               key[1] # lastEvent'.step => accumulators'[key] = accumulators[key]]_vars

\* a tool-call part was finalized with MalformedToolArguments; afterwards
\* another run-step was created and its delta was applied
C24_Witness ==
  /\ Len(contentParts) = 1
  /\ contentParts[1].type = "tool_call"
  /\ contentParts[1].error = "MalformedToolArguments"
  /\ Len(delivered) = 2
  /\ delivered[1].step = contentParts[1].step
  /\ delivered[2].step # contentParts[1].step
  /\ accumulators[<<delivered[2].step, delivered[2].index>>].buffer = <<delivered[2].chunk>>
  /\ aggStatus = "running"

\* C25: every accumulator and every visible part belongs to a pair that has
\* received a delta; the visible list only grows at its end, and what is
\* appended are the parts of the run-step that completes in that step.
C25_NeverVisibleBeforeFirstDelta ==
  /\ [](aggStatus # "none" =>
          /\ \A key \in PairKeys :
               accumulators[key] # NoAcc => deltasFor(delivered, key) # <<>>
          /\ \A p \in 1..Len(contentParts) :
               deltasFor(delivered, <<contentParts[p].step, contentParts[p].index>>)
                 # <<>>)
  /\ [][/\ Len(contentParts') >= Len(contentParts)
        /\ SubSeq(contentParts', 1, Len(contentParts)) = contentParts
        /\ \A p \in (Len(contentParts) + 1)..Len(contentParts') :
             /\ lastEvent'.event = "completed"
             /\ contentParts'[p].step = lastEvent'.step]_vars

\* the run-step created first completed without a delta and has no visible
\* part; the other one completed after it with one delta for content
\* index 1 and has one
C25_Witness ==
  /\ stepMap["step_1"] = "done"
  /\ stepMap["step_2"] = "done"
  /\ Len(delivered) = 1
  /\ delivered[1].step = "step_2"
  /\ delivered[1].index = 1
  /\ Len(contentParts) = 1
  /\ contentParts[1].step = "step_2"
  /\ contentParts[1].index = 1

----------------------------------------------------------------------------
(* Properties of the shared token encoder *)

\* the encoder loads started in epoch e (between reset number e and the next)
loadsIn(e) == {l \in 1..Len(loads) : loads[l].epoch = e}

\* the createTokenCounter() calls made in epoch e
counterCallsIn(e) ==
  {k \in 1..Len(tokenCalls) :
     tokenCalls[k].op = "createTokenCounter" /\ tokenCalls[k].epoch = e}

C27_InitializedIffLoadStarted ==
  /\ [](isInitialized <=> loadsIn(epoch) # {})
  /\ [](tokenCounterPromise # 0 => counterPromises[tokenCounterPromise].epoch = epoch)
  /\ [][(epoch' = epoch + 1) => (encoderPromise' = 0 /\ tokenCounterPromise' = 0)]_vars
  /\ [][(Len(tokenCalls') = Len(tokenCalls) + 1 /\ epoch' = epoch /\ loadsIn(epoch) = {})
          => (Len(loads') = Len(loads) + 1 /\ loads'[Len(loads')].epoch = epoch)]_vars

\* after a reset() that followed a completed load and a counter, a
\* createTokenCounter() call started the second fetch
C27_Witness ==
  /\ epoch = 1
  /\ Len(loads) = 2
  /\ loads[1].state = "fulfilled"
  /\ Len(counterPromises) = 2
  /\ tokenCalls[Len(tokenCalls)].op = "createTokenCounter"
  /\ tokenCalls[Len(tokenCalls)].promise = 2
  /\ isInitialized


----------------------------------------------------------------------------
(***************************************************************************)
(* Part 7: the Bedrock Converse chat model (src/unnamed/part_002).         *)
(*   An invocation runs up to its first await in one step, swapping        *)
(*   this.model; other invocations on the same instance can start while it *)
(*   waits; its finally block runs when it returns or throws.              *)
(***************************************************************************)

\* the model id the instance was constructed with
ConfiguredModel == "model-id"

\* fields?.applicationInferenceProfile: undefined, '' or an ARN
Profiles == {Absent, "", "profile-arn"}

InvocationKinds == {"_generateNonStreaming", "_streamResponseChunks"}

\* invocations made on one instance
MaxInvocations == 3

\* chunks one stream yields
MaxChunks == 1

\* if (applicationInferenceProfile != null && !== '') this.model = profile
swapModel(current, profile) ==
  IF profile # Absent /\ profile # "" THEN profile ELSE current

ConverseInit ==
  /\ model = ConfiguredModel
  /\ applicationInferenceProfile \in Profiles
  /\ invocations = <<>>
  /\ generationChunk = <<>>
  /\ cleanedChunk = <<>>
  /\ heap = EmptyHeap
  /\ left = <<>>
  /\ right = <<>>
  /\ pc = "idle"
  /\ heap0 = EmptyHeap
  /\ result = <<>>
  /\ messages = <<>>
  /\ FanIdle
  /\ CacheIdle
  /\ RouterIdle
  /\ AggIdle
  /\ TokenIdle
  /\ HandoffIdle

\* an invocation starts: originalModel = this.model, the swap, and the call
\* of the parent's method, on which it waits
Invoke(kind) ==
  /\ Len(invocations) < MaxInvocations
  /\ invocations' = Append(invocations,
                           [kind |-> kind, originalModel |-> model,
                            status |-> "awaiting", chunks |-> 0])
  /\ model' = swapModel(model, applicationInferenceProfile)
  /\ UNCHANGED <<applicationInferenceProfile, generationChunk, cleanedChunk,
                 reducerVars, fanVars, cacheVars, routerVars, aggVars, tokenVars,
                 handoffVars>>

\* the parent's stream delivers a chunk to invocation c, which yields it
StreamChunk(c) ==
  /\ c \in 1..Len(invocations)
  /\ invocations[c].kind = "_streamResponseChunks"
  /\ invocations[c].status = "awaiting"
  /\ invocations[c].chunks < MaxChunks
  /\ invocations' = [invocations EXCEPT ![c].chunks = @ + 1]
  /\ UNCHANGED <<model, applicationInferenceProfile, generationChunk, cleanedChunk,
                 reducerVars, fanVars, cacheVars, routerVars, aggVars, tokenVars,
                 handoffVars>>

\* invocation c returns or throws: finally { this.model = originalModel }
Settle(c, outcome) ==
  /\ c \in 1..Len(invocations)
  /\ invocations[c].status = "awaiting"
  /\ invocations' = [invocations EXCEPT ![c].status = outcome]
  /\ model' = invocations[c].originalModel
  /\ UNCHANGED <<applicationInferenceProfile, generationChunk, cleanedChunk,
                 reducerVars, fanVars, cacheVars, routerVars, aggVars, tokenVars,
                 handoffVars>>

ConverseNext ==
  \/ \E kind \in InvocationKinds : Invoke(kind)
  \/ \E c \in 1..MaxInvocations : StreamChunk(c)
  \/ \E c \in 1..MaxInvocations, outcome \in {"returned", "threw"} : Settle(c, outcome)

SpecConverse == ConverseInit /\ [][ConverseNext]_vars

----------------------------------------------------------------------------
(* cleanChunk: the chunks the chat model yields *)

\* the longest array in a response_metadata of the model
MaxItems == 1

\* a JavaScript value: null, a number, a plain object (a function from its
\* own keys to values) or an array (a sequence of values)
JsNull == [t |-> "null"]
JsNumber == [t |-> "number", v |-> 1]
JsObject(f) == [t |-> "object", f |-> f]
JsArray(a) == [t |-> "array", a |-> a]

MetadataKeys == {"contentBlockIndex", "k"}

Scalars == {JsNull, JsNumber}

\* the objects and arrays whose values are taken from V
ObjectsOver(V) == {JsObject(f) : f \in UNION {[D -> V] : D \in SUBSET MetadataKeys}}
ArraysOver(V) ==
  {JsArray(a) : a \in UNION {[1..n -> V] : n \in 0..MaxItems}}

\* values nested one and two levels deep
Nested1 == Scalars \cup ObjectsOver(Scalars) \cup ArraysOver(Scalars)
Nested2 == Nested1 \cup ObjectsOver(Nested1) \cup ArraysOver(Nested1)

\* the response_metadata values of the model: the values nested two levels
\* deep, and each of them under the key "k" of one more object
Metadatas == Nested2 \cup {JsObject([key \in {"k"} |-> v]) : v \in Nested2}

\* Object.values(obj): the own values of an object, the items of an array
ObjectValues(obj) ==
  IF obj.t = "object" THEN {obj.f[key] : key \in DOMAIN obj.f}
  ELSE IF obj.t = "array" THEN {obj.a[i] : i \in 1..Len(obj.a)}
  ELSE {}

RECURSIVE hasContentBlockIndex(_)
hasContentBlockIndex(obj) ==
  IF obj.t \notin {"object", "array"} THEN FALSE
  ELSE IF obj.t = "object" /\ "contentBlockIndex" \in DOMAIN obj.f THEN TRUE
  ELSE \E value \in ObjectValues(obj) :
         value.t \in {"object", "array"} /\ hasContentBlockIndex(value)

\* mutant: arrays are returned as they are
RECURSIVE removeContentBlockIndex_skipArrays(_)
removeContentBlockIndex_skipArrays(obj) ==
  IF obj.t = "null" THEN obj
  ELSE IF obj.t = "array" THEN obj
  ELSE IF obj.t = "object"
    THEN JsObject([key \in DOMAIN obj.f \ {"contentBlockIndex"} |->
                     removeContentBlockIndex_skipArrays(obj.f[key])])
  ELSE obj

RECURSIVE removeContentBlockIndex(_)
removeContentBlockIndex(obj) ==
  IF obj.t = "null" THEN obj
  ELSE IF obj.t = "array"
    THEN JsArray([i \in 1..Len(obj.a) |-> removeContentBlockIndex(obj.a[i])])
  ELSE IF obj.t = "object"
    THEN JsObject([key \in DOMAIN obj.f \ {"contentBlockIndex"} |->
                     removeContentBlockIndex(obj.f[key])])
  ELSE obj

MessageClasses == {"AIMessageChunk", "ToolMessageChunk"}
ChunkTexts == {"", "t"}

\* the chunks the parent's stream delivers: object 1 is the ChatGenerationChunk
\* and object 2 its message
ParentChunks ==
  {[object |-> 1, text |-> text, generationInfo |-> JsNull,
    message |-> [object |-> 2, class |-> class, content |-> text,
                 response_metadata |-> metadata]] :
     text \in ChunkTexts, class \in MessageClasses, metadata \in Metadatas}

\* new ChatGenerationChunk({ text, message: new AIMessageChunk({ ...message,
\* response_metadata: cleanedMetadata }), generationInfo }): objects 3 and 4
cleanChunk(c) ==
  IF c.message.class # "AIMessageChunk" THEN c
  ELSE IF ~hasContentBlockIndex(c.message.response_metadata) THEN c
  ELSE [object |-> 3, text |-> c.text, generationInfo |-> c.generationInfo,
        message |-> [object |-> 4, class |-> "AIMessageChunk",
                     content |-> c.message.content,
                     response_metadata |->
                       removeContentBlockIndex(c.message.response_metadata)]]

CleanInit ==
  /\ model = ConfiguredModel
  /\ applicationInferenceProfile = Absent
  /\ invocations = <<>>
  /\ generationChunk \in {<<c>> : c \in ParentChunks}
  /\ cleanedChunk = <<>>
  /\ heap = EmptyHeap
  /\ left = <<>>
  /\ right = <<>>
  /\ result = <<>>
  /\ messages = <<>>
  /\ pc = "idle"
  /\ heap0 = EmptyHeap
  /\ FanIdle
  /\ CacheIdle
  /\ RouterIdle
  /\ AggIdle
  /\ TokenIdle
  /\ HandoffIdle

\* yield this.cleanChunk(chunk)
YieldChunk ==
  /\ cleanedChunk = <<>>
  /\ cleanedChunk' = <<cleanChunk(generationChunk[1])>>
  /\ UNCHANGED <<model, applicationInferenceProfile, invocations, generationChunk,
                 reducerVars, fanVars, cacheVars, routerVars, aggVars, tokenVars,
                 handoffVars>>

CleanNext == YieldChunk

SpecCleanChunk == CleanInit /\ [][CleanNext]_vars

----------------------------------------------------------------------------
(* Properties of the chat model *)

\* every invocation made has returned or thrown
AllSettled ==
  /\ invocations # <<>>
  /\ \A c \in 1..Len(invocations) : invocations[c].status # "awaiting"

\* C37: on an instance with a non-empty applicationInferenceProfile, once
\* every invocation has returned or thrown, this.model is the model id the
\* instance was constructed with.
C37_ModelRestored ==
  (applicationInferenceProfile \notin {Absent, ""} /\ AllSettled) =>
    model = ConfiguredModel

\* the key under which Object.entries lists item i of an array
IndexKeys == <<"0", "1", "2", "3">>

\* what a value is at its top: the value itself for null and numbers, the
\* kind of container for objects and arrays
KindOf(v) == IF v.t \in {"object", "array"} THEN [t |-> v.t] ELSE v

\* every value inside v with the path of keys that leads to it
RECURSIVE NodesOf(_)
NodesOf(v) ==
  {<<(<<>>), KindOf(v)>>} \cup
    (IF v.t = "object"
       THEN UNION {{<<(<<key>>) \o n[1], n[2]>> : n \in NodesOf(v.f[key])} :
                     key \in DOMAIN v.f}
     ELSE IF v.t = "array"
       THEN UNION {{<<(<<IndexKeys[j]>>) \o n[1], n[2]>> : n \in NodesOf(v.a[j])} :
                     j \in 1..Len(v.a)}
     ELSE {})

\* the nodes of v that are not at or under a contentBlockIndex key
NodesKept(v) ==
  {n \in NodesOf(v) : \A j \in 1..Len(n[1]) : n[1][j] # "contentBlockIndex"}

\* C39: the chunk cleanChunk returns for an AIMessageChunk whose
\* response_metadata holds a contentBlockIndex key at some depth holds none at
\* any depth, through objects and arrays, and holds every other key and value
\* of the metadata at its path, with the chunk's text, generationInfo and
\* message content; a chunk without such a key, or whose message is not an
\* AIMessageChunk, is returned as the same object.
C39_CleanChunkRemovesKeyEverywhere ==
  cleanedChunk # <<>> =>
    LET c == generationChunk[1]
        out == cleanedChunk[1]
        metadata == c.message.response_metadata
    IN IF c.message.class = "AIMessageChunk" /\ NodesKept(metadata) # NodesOf(metadata)
         THEN /\ NodesOf(out.message.response_metadata) = NodesKept(metadata)
              /\ NodesKept(out.message.response_metadata) =
                   NodesOf(out.message.response_metadata)
              /\ out.text = c.text
              /\ out.generationInfo = c.generationInfo
              /\ out.message.class = c.message.class
              /\ out.message.content = c.message.content
         ELSE out = c

\* a chunk whose metadata holds the key in an object inside an array inside
\* an object has been cleaned, and a new chunk was returned
C39_Witness ==
  /\ cleanedChunk # <<>>
  /\ cleanedChunk[1].object # generationChunk[1].object
  /\ \E n \in NodesOf(generationChunk[1].message.response_metadata) :
       /\ Len(n[1]) = 3
       /\ n[1][1] = "k"
       /\ n[1][2] = "0"
       /\ n[1][3] = "contentBlockIndex"
  /\ \E n \in NodesOf(cleanedChunk[1].message.response_metadata) : Len(n[1]) = 2

----------------------------------------------------------------------------
(* One more property of the shared token encoder *)

\* C40: in every reachable state of the token module a cached token counter
\* implies a cached encoder.
C40_CounterImpliesEncoder ==
  tokenCounterPromise # 0 => encoderPromise # 0

\* after a reset, createTokenCounter has cached a counter and, with it, an
\* encoder
C40_Witness ==
  /\ epoch > 0
  /\ tokenCounterPromise # 0
  /\ encoderPromise # 0
  /\ counterPromises[tokenCounterPromise].epoch = epoch

====
